---------------------------- MODULE Spec2Model ----------------------------
(***************************************************************************)
(* Contact Tracing Transformer (src/models.py): construction of the model, *)
(* the diagnose() scope, and the forward pass over the merged entity set   *)
(* (encounters followed by self-days).                                     *)
(*                                                                         *)
(* One batch element is modelled; every operation of forward acts on the   *)
(* batch elements independently.  A tensor of shape (N, C) is a sequence   *)
(* of N rows, each a sequence of C channel values.  Channel values are     *)
(* integers modulo ValMod; a raw feature vector is abstracted to one       *)
(* number in 0..MaxVal.                                                    *)
(*                                                                         *)
(* The data loader (src/loader.py) is modelled next to it: the sample that *)
(* ContactDataset.get builds from one record of a person's day, and the    *)
(* batch that ContactDataset.collate_fn builds from a list of samples.     *)
(***************************************************************************)
EXTENDS Integers, Sequences, FiniteSets, TLC

VARIABLES
    ctor,            \* "unbuilt" | "built" | "ValueError": outcome of __init__
    cfg,             \* keyword arguments the constructor was called with
    self_attention_blocks, \* the nn.ModuleList built by __init__
    _diagnose,       \* self._diagnose
    scopes,          \* per caller: old_diagnose of each active diagnose() frame
    pc,              \* position of the forward call in flight
    caller,          \* who made the forward call in flight
    inputs,          \* forward's argument
    entities,        \* local `entities`
    expanded_mask,   \* local `expanded_mask`
    meta_data,       \* local `meta_data`
    attention_mask,  \* local `attention_mask`
    sab_idx,         \* number of blocks of the for loop already completed
    weights_passed,  \* the `weights=` argument of every block call made so far
    results,         \* what the last completed forward call returned
    raised,          \* the exception in flight, "" when none
    kept,            \* the call whose returned mapping the caller still holds
    dataset,         \* the ContactDataset: its constructor's keyword arguments
    human_day_info,  \* the record the last ContactDataset.get worked on
    sample,          \* what the last ContactDataset.get returned
    samples,         \* the list of samples the last collate_fn was given
    collates,        \* what the last ContactDataset.collate_fn returned
    loader_exc,      \* the exception the last loader call raised, "" when none
    loss_call,       \* the last loss call made: its name and arguments
    loss_result,     \* what that call returned or raised
    store,           \* the records of the dataset directory, by file name
    getitem_frame,   \* locals of the __getitem__ call in flight
    getitem_pc,      \* position of that call
    getitem_result,  \* what the last __getitem__ call returned or raised
    heap,            \* the Python objects of the pre-transform calls, by reference
    caller_info,     \* the reference the caller holds to its human_day_info
    returned_info,   \* the reference the last pre-transform call returned
    transform_calls  \* number of pre-transform calls made on the record

vars == << ctor, cfg, self_attention_blocks, _diagnose, scopes, pc, caller,
           inputs, entities, expanded_mask, meta_data, attention_mask,
           sab_idx, weights_passed, results, raised, kept,
           dataset, human_day_info, sample, samples, collates, loader_exc,
           loss_call, loss_result,
           store, getitem_frame, getitem_pc, getitem_result,
           heap, caller_info, returned_info, transform_calls >>

modelVars == << ctor, cfg, self_attention_blocks, _diagnose, scopes, pc, caller,
                inputs, entities, expanded_mask, meta_data, attention_mask,
                sab_idx, weights_passed, results, raised, kept >>

loaderVars == << dataset, human_day_info, sample, samples, collates, loader_exc >>

lossVars == << loss_call, loss_result >>

itemVars == << store, getitem_frame, getitem_pc, getitem_result >>

transformVars == << heap, caller_info, returned_info, transform_calls >>

\* the variables of the components other than the model and the loader's get
restVars == << lossVars, itemVars, transformVars >>

frame == << inputs, entities, expanded_mask, meta_data, attention_mask,
            sab_idx, weights_passed >>

-----------------------------------------------------------------------------
(* Bounds of the model *)

MaxM == 2          \* encounter slots per batch: M in 0..MaxM
WindowLen == 2     \* T: rows of the rolling history window (14 in the data)
MaxVal == 1        \* raw feature values are 0..MaxVal
MaxSabs == 2       \* num_sabs in 0..MaxSabs
MaxDepth == 2      \* nesting depth of diagnose() scopes per caller
ValMod == 5        \* channel values are integers modulo ValMod

(* Embedding widths of the configuration under study (keyword arguments of *)
(* ContactTracingTransformer.__init__, scaled down).                       *)
TimeDim == 1
PidDim == 1
DurDim == 1
HealthDim == 2
MsgDim == 1
ProfileDim == 1
SabCapacity == 2

Callers == {"a", "b"}
DurationModes == {"thermo", "sines", "linear"}

-----------------------------------------------------------------------------
(* Arithmetic helpers *)

Mod(x) == x % ValMod

RECURSIVE Sum(_)
Sum(s) == IF s = <<>> THEN 0 ELSE Head(s) + Sum(Tail(s))

\* a function on 1..n as an explicit tuple
Tup(f) == f \o <<>>

Width(rows) == IF rows = <<>> THEN 0 ELSE Len(rows[1])

\* x[:, :k] and x[:, k:] on one batch element
SliceTo(rows, k) == Tup([i \in 1..Len(rows) |-> SubSeq(rows[i], 1, k)])
SliceFrom(rows, k) ==
    Tup([i \in 1..Len(rows) |-> SubSeq(rows[i], k + 1, Len(rows[i]))])

\* torch.cat(..., dim=-1) of two tensors with the same number of rows
CatChannels(x, y) == Tup([i \in 1..Len(x) |-> x[i] \o y[i]])

\* p[None, None].expand(B, n, C)
Expand(p, n) == Tup([i \in 1..n |-> p])

-----------------------------------------------------------------------------
(* Building blocks imported from `modules` and `attn`.  Every embedder is  *)
(* a fixed-width function of the raw value at one position and does not    *)
(* mask its own output; the zeroing is the Entity Masker's job.            *)

Coef(kind) ==
    CASE kind = "health_history" -> 1
      [] kind = "health_profile" -> 2
      [] kind = "time_learned" -> 3
      [] kind = "positional" -> 4
      [] kind = "duration_thermo" -> 2
      [] kind = "partner_id" -> 3
      [] kind = "message" -> 4

Embed(kind, x, width) == Tup([c \in 1..width |-> Mod(Coef(kind) * (x + 1) + c)])

\* an embedder applied to a (N, C_raw) tensor: one output row per position
EmbedRows(kind, xs, width) ==
    Tup([i \in 1..Len(xs) |-> Embed(kind, xs[i], width)])

\* mods.EntityMasker: multiply each entity's feature vector by its mask bit
entity_masker(rows, mask) ==
    Tup([i \in 1..Len(rows) |->
            Tup([c \in 1..Len(rows[i]) |-> rows[i][c] * mask[i]])])

\* weighted content of one entity (a learned projection with a bias)
Digest(row) == Mod(1 + Sum(Tup([c \in 1..Len(row) |-> c * row[c]])))

\* attn.SAB.forward(X, weights=W): query q keeps a residual/bias term of its
\* own row and adds the content of the keys i with W[q][i] = 1; a pair with
\* W[q][i] = 0 gets attention weight 0.  `n` tells the blocks' weights apart.
SABForward(n, dim_out, X, W) ==
    LET content == Tup([i \in 1..Len(X) |-> Digest(X[i])])
        attended == Tup([q \in 1..Len(X) |->
                            Sum(Tup([i \in 1..Len(X) |-> W[q][i] * content[i]]))])
    IN  Tup([q \in 1..Len(X) |->
                Tup([c \in 1..dim_out |-> Mod(c + n + content[q] + c * attended[q])])])

-----------------------------------------------------------------------------
(* ContactTracingTransformer.__init__ *)

encounter_output_features == 1
latent_variable_output_features == 1

sab_in_dim == TimeDim + PidDim + DurDim + HealthDim + MsgDim + ProfileDim
sab_metadata_dim == TimeDim + PidDim + DurDim
\* mutant: the later blocks are built for the block output width alone
sab_intermediate_in_dim_noMetaData == SabCapacity
sab_intermediate_in_dim == SabCapacity + sab_metadata_dim

\* Python values a caller may pass as use_learned_time_embedding, by their
\* repr: the two booleans, and mode names passed as strings
TimeFlags == {"True", "False"}
TimeArgs == TimeFlags \cup {"'positional'", "'fourier'"}

\* bool(v): False, None, 0 and empty containers are falsy, the rest truthy
Truthy(v) == v \notin {"False", "None", "0", "''"}

\* the keyword arguments a caller may pass
Configs ==
    [ num_sabs : 0..MaxSabs,
      use_encounter_partner_id_embedding : BOOLEAN,
      use_learned_time_embedding : TimeFlags,
      encounter_duration_embedding_mode : DurationModes ]

\* the same with any value as use_learned_time_embedding
CtorArgs ==
    [ num_sabs : 0..MaxSabs,
      use_encounter_partner_id_embedding : BOOLEAN,
      use_learned_time_embedding : TimeArgs,
      encounter_duration_embedding_mode : DurationModes ]

\* which embedder class the constructor picks for time and for duration
TimeKind(k) ==
    IF Truthy(k.use_learned_time_embedding) THEN "time_learned" ELSE "positional"

\* mutant: an unknown mode silently falls back to the sinusoidal encoding
DurationKind_fallback(k) ==
    IF k.encounter_duration_embedding_mode = "thermo" THEN "duration_thermo"
    ELSE "positional"

DurationKind(k) ==
    IF k.encounter_duration_embedding_mode = "thermo" THEN "duration_thermo"
    ELSE IF k.encounter_duration_embedding_mode = "sines" THEN "positional"
    ELSE "ValueError"

\* the list of blocks: a first block for the merged set's width (an attn.SAB,
\* or the plain nn.Sequential MLP when num_sabs < 1), then num_sabs - 1 SABs
BuildBlocks(num_sabs) ==
    LET first == IF num_sabs >= 1
                 THEN [kind |-> "SAB", dim_in |-> sab_in_dim,
                       dim_out |-> SabCapacity]
                 ELSE [kind |-> "Sequential", dim_in |-> sab_in_dim,
                       dim_out |-> SabCapacity]
        later == Tup([i \in 1..(num_sabs - 1) |->
                         [kind |-> "SAB", dim_in |-> sab_intermediate_in_dim,
                          dim_out |-> SabCapacity]])
    IN  <<first>> \o later

\* nn.Parameter placeholders (learned constants, fixed during a forward call)
message_placeholder == Tup([c \in 1..MsgDim |-> Mod(c + 1)])
partner_id_placeholder == Tup([c \in 1..PidDim |-> Mod(c + 2)])
duration_placeholder == Tup([c \in 1..DurDim |-> Mod(c + 3)])

\* in_features of the first Linear layer of each head
encounter_mlp_in_features == SabCapacity
latent_variable_mlp_in_features == SabCapacity + sab_metadata_dim

\* the two output heads: nn.Sequential(Linear, ReLU, Linear) applied per row
encounter_mlp(rows) ==
    Tup([i \in 1..Len(rows) |->
            Tup([c \in 1..encounter_output_features |->
                    Mod(c + 1 + 2 * Digest(rows[i]))])])

latent_variable_mlp(rows) ==
    Tup([i \in 1..Len(rows) |->
            Tup([c \in 1..latent_variable_output_features |->
                    Mod(c + 2 + 3 * Digest(rows[i]))])])

-----------------------------------------------------------------------------
(* _ContactTracingTransformer.forward: the quantities computed before the  *)
(* loop, as functions of the configuration k and the batch b               *)

BatchKeys ==
    { "health_history", "health_profile", "history_days", "valid_history_mask",
      "encounter_health", "encounter_message", "encounter_day",
      "encounter_duration", "encounter_partner_id", "mask" }

num_history_days(b) == Len(b.health_history)
num_encounters(b) == Len(b.encounter_health)

embedded_health_history(k, b) ==
    EmbedRows("health_history", b.health_history, HealthDim)

embedded_health_profile(k, b) ==
    Embed("health_profile", b.health_profile, ProfileDim)

embedded_encounter_health(k, b) ==
    EmbedRows("health_history", b.encounter_health, HealthDim)

embedded_history_days(k, b) == EmbedRows(TimeKind(k), b.history_days, TimeDim)

embedded_encounter_day(k, b) == EmbedRows(TimeKind(k), b.encounter_day, TimeDim)

embedded_encounter_duration(k, b) ==
    EmbedRows(DurationKind(k), b.encounter_duration, DurDim)

\* mutant: the raw ids are embedded whatever the configuration says
embedded_encounter_partner_ids_fromRaw(k, b) ==
    EmbedRows("partner_id", b.encounter_partner_id, PidDim)

embedded_encounter_partner_ids(k, b) ==
    IF k.use_encounter_partner_id_embedding
    THEN EmbedRows("partner_id", b.encounter_partner_id, PidDim)
    ELSE entity_masker(Expand(partner_id_placeholder, num_encounters(b)), b.mask)

embedded_encounter_messages(k, b) ==
    EmbedRows("message", b.encounter_message, MsgDim)

expanded_health_profile_per_encounter(k, b) ==
    Expand(embedded_health_profile(k, b), num_encounters(b))

encounter_entities(k, b) ==
    LET day == embedded_encounter_day(k, b)
        pid == embedded_encounter_partner_ids(k, b)
        duration == embedded_encounter_duration(k, b)
        health == embedded_encounter_health(k, b)
        message == embedded_encounter_messages(k, b)
        profile == expanded_health_profile_per_encounter(k, b)
    IN  Tup([m \in 1..num_encounters(b) |->
                day[m] \o pid[m] \o duration[m] \o health[m] \o message[m]
                \o profile[m]])

expanded_message_placeholder(k, b) ==
    Expand(message_placeholder, num_history_days(b))

expanded_pid_placeholder(k, b) ==
    Expand(partner_id_placeholder, num_history_days(b))

expanded_duration_placeholder(k, b) ==
    Expand(duration_placeholder, num_history_days(b))

expanded_health_profile_per_day(k, b) ==
    Expand(embedded_health_profile(k, b), num_history_days(b))

\* mutant: the self entities put the health channel before the placeholders
self_entities_healthFirst(k, b) ==
    LET day == embedded_history_days(k, b)
        pid == expanded_pid_placeholder(k, b)
        duration == expanded_duration_placeholder(k, b)
        health == embedded_health_history(k, b)
        message == expanded_message_placeholder(k, b)
        profile == expanded_health_profile_per_day(k, b)
    IN  Tup([t \in 1..num_history_days(b) |->
                day[t] \o health[t] \o pid[t] \o duration[t] \o message[t]
                \o profile[t]])

self_entities(k, b) ==
    LET day == embedded_history_days(k, b)
        pid == expanded_pid_placeholder(k, b)
        duration == expanded_duration_placeholder(k, b)
        health == embedded_health_history(k, b)
        message == expanded_message_placeholder(k, b)
        profile == expanded_health_profile_per_day(k, b)
    IN  Tup([t \in 1..num_history_days(b) |->
                day[t] \o pid[t] \o duration[t] \o health[t] \o message[t]
                \o profile[t]])

\* mutant: the two masks concatenated in the wrong order
ExpandedMask_swapped(b) == b.valid_history_mask \o b.mask

\* mutant: a mask of ones, every entity taken as valid
ExpandedMask_allValid(b) ==
    Tup([i \in 1..(Len(b.mask) + Len(b.valid_history_mask)) |-> 1])

\* torch.cat([inputs["mask"], inputs["valid_history_mask"]], dim=1)
ExpandedMask(b) == b.mask \o b.valid_history_mask

\* mutant: the self-day entities are put before the encounter entities
MergedEntities_selfFirst(k, b) ==
    entity_masker(self_entities(k, b) \o encounter_entities(k, b), ExpandedMask(b))

\* mutant: the merged set is not masked before the loop
MergedEntities_unmasked(k, b) == encounter_entities(k, b) \o self_entities(k, b)

\* the merged set: encounters first, then self-days, then masked
MergedEntities(k, b) ==
    entity_masker(encounter_entities(k, b) \o self_entities(k, b), ExpandedMask(b))

\* shape[2] of the three metadata embeddings (an embedder's output width)
meta_data_dim == TimeDim + PidDim + DurDim

\* meta_data = entities[:, :, :meta_data_dim]
MetaData(ents) == SliceTo(ents, meta_data_dim)

\* mutant: only the key's mask bit is used, the query's is dropped
AttentionMask_keysOnly(em) ==
    Tup([q \in 1..Len(em) |-> Tup([i \in 1..Len(em) |-> em[i]])])

\* expanded_mask[:, :, None] * expanded_mask[:, None, :]
AttentionMask(em) ==
    Tup([q \in 1..Len(em) |-> Tup([i \in 1..Len(em) |-> em[q] * em[i]])])

-----------------------------------------------------------------------------
(* forward: one round of the loop, the output heads, the result mapping    *)

\* sab(entities, weights=attention_mask).  nn.Sequential.forward takes one
\* positional argument only, so the keyword call raises TypeError; an SAB
\* whose dim_in is not the width of its input raises a shape error.
BlockOutcome(blocks, n, ents, am) ==
    IF blocks[n].kind = "Sequential"
    THEN [exc |-> "TypeError", value |-> <<>>]
    ELSE IF Width(ents) # blocks[n].dim_in
    THEN [exc |-> "RuntimeError", value |-> <<>>]
    ELSE [exc |-> "", value |-> SABForward(n, blocks[n].dim_out, ents, am)]

\* mutant: the block's output is passed on without the masker
MaskRound_skipped(ents, em) == ents

\* entities = self.entity_masker(entities, expanded_mask)
MaskRound(ents, em) == entity_masker(ents, em)

\* mutant: the meta-data is appended after the block's output
CatRound_appended(md, ents) == CatChannels(ents, md)

\* entities = torch.cat([meta_data, entities], dim=2)
CatRound(md, ents) == CatChannels(md, ents)

\* mutant: the split index is the number of history days
pre_latent_variable_splitAtT(ents, M) == SubSeq(ents, (Len(ents) - M) + 1, Len(ents))

\* entities[:, num_encounters:]
pre_latent_variable(ents, M) == SubSeq(ents, M + 1, Len(ents))

\* mutant: the encounter rows keep their meta-data prefix
pre_encounter_variables_withMetaData(ents, M) == SubSeq(ents, 1, M)

\* entities[:, :num_encounters, meta_data_dim:]
pre_encounter_variables(ents, M) == SliceFrom(SubSeq(ents, 1, M), meta_data_dim)

StandardKeys == {"encounter_variables", "latent_variable"}

StandardResults(ents, M) ==
    [ encounter_variables |-> encounter_mlp(pre_encounter_variables(ents, M)),
      latent_variable |-> latent_variable_mlp(pre_latent_variable(ents, M)) ]

\* locals() at the end of forward
Locals(k, blocks, b, ents, em, md, am) ==
    [ self |-> "self",
      inputs |-> b,
      batch_size |-> 1,
      num_history_days |-> num_history_days(b),
      num_encounters |-> num_encounters(b),
      embedded_health_history |-> embedded_health_history(k, b),
      embedded_health_profile |-> embedded_health_profile(k, b),
      embedded_encounter_health |-> embedded_encounter_health(k, b),
      embedded_history_days |-> embedded_history_days(k, b),
      embedded_encounter_day |-> embedded_encounter_day(k, b),
      embedded_encounter_duration |-> embedded_encounter_duration(k, b),
      embedded_encounter_partner_ids |-> embedded_encounter_partner_ids(k, b),
      embedded_encounter_messages |-> embedded_encounter_messages(k, b),
      expanded_health_profile_per_encounter |->
          expanded_health_profile_per_encounter(k, b),
      encounter_entities |-> encounter_entities(k, b),
      expanded_message_placeholder |-> expanded_message_placeholder(k, b),
      expanded_pid_placeholder |-> expanded_pid_placeholder(k, b),
      expanded_duration_placeholder |-> expanded_duration_placeholder(k, b),
      expanded_health_profile_per_day |-> expanded_health_profile_per_day(k, b),
      self_entities |-> self_entities(k, b),
      entities |-> ents,
      expanded_mask |-> em,
      meta_data_dim |-> meta_data_dim,
      meta_data |-> md,
      attention_mask |-> am,
      sab |-> blocks[Len(blocks)],
      pre_latent_variable |-> pre_latent_variable(ents, num_encounters(b)),
      latent_variable |-> StandardResults(ents, num_encounters(b)).latent_variable,
      pre_encounter_variables |-> pre_encounter_variables(ents, num_encounters(b)),
      encounter_variables |->
          StandardResults(ents, num_encounters(b)).encounter_variables,
      results |-> StandardResults(ents, num_encounters(b)) ]

\* the names forward pops from its copy of locals()
Popped == {"results", "self", "encounter_variables", "latent_variable"}

Pop(d, keys) == [x \in DOMAIN d \ keys |-> d[x]]

\* dict.update: the entries of `other` are added to d and replace d's
Update(d, other) ==
    [x \in DOMAIN d \cup DOMAIN other |-> IF x \in DOMAIN other THEN other[x] ELSE d[x]]

\* mutant: the locals replace the result mapping instead of extending it
PackResults_replaced(diag, standard, locals) ==
    IF diag THEN Pop(locals, Popped) ELSE standard

\* results as returned: the two outputs, plus the locals when diagnosing
PackResults(diag, standard, locals) ==
    IF diag THEN Update(standard, Pop(locals, Popped)) ELSE standard

-----------------------------------------------------------------------------
(* forward as a whole: what a call returns or raises                       *)

\* inputs["health_history"] etc.: a mapping lacking a key raises KeyError
WellFormed(b) == BatchKeys \subseteq DOMAIN b

\* the Linear layers of the heads need the width they were built for
HeadsOutcome(diag, k, blocks, b, ents, em, md, am) ==
    IF \/ Width(ents) # latent_variable_mlp_in_features
       \/ Width(ents) - meta_data_dim # encounter_mlp_in_features
    THEN [exc |-> "RuntimeError", value |-> <<>>]
    ELSE [exc |-> "",
          value |-> PackResults(diag, StandardResults(ents, num_encounters(b)),
                                Locals(k, blocks, b, ents, em, md, am))]

RECURSIVE RunBlocks(_, _, _, _, _, _)
RunBlocks(blocks, n, ents, em, md, am) ==
    IF n > Len(blocks)
    THEN [exc |-> "", value |-> ents]
    ELSE LET o == BlockOutcome(blocks, n, ents, am)
         IN  IF o.exc # ""
             THEN o
             ELSE RunBlocks(blocks, n + 1, CatRound(md, MaskRound(o.value, em)),
                            em, md, am)

Forward(diag, k, blocks, b) ==
    IF ~WellFormed(b)
    THEN [exc |-> "KeyError", value |-> <<>>]
    ELSE LET em == ExpandedMask(b)
             ents0 == MergedEntities(k, b)
             md == MetaData(ents0)
             am == AttentionMask(em)
             r == RunBlocks(blocks, 1, ents0, em, md, am)
         IN  IF r.exc # ""
             THEN r
             ELSE HeadsOutcome(diag, k, blocks, b, r.value, em, md, am)

-----------------------------------------------------------------------------
(* The batches a caller passes *)

RawVals == 0..MaxVal

MkBatch(M, T, seed, mask, vmask) ==
    [ health_history |-> Tup([t \in 1..T |-> (seed + t) % (MaxVal + 1)]),
      health_profile |-> seed,
      history_days |-> Tup([t \in 1..T |-> (t - 1) % (MaxVal + 1)]),
      valid_history_mask |-> Tup(vmask),
      encounter_health |-> Tup([m \in 1..M |-> (seed + m) % (MaxVal + 1)]),
      encounter_message |-> Tup([m \in 1..M |-> (seed + 2 * m + 1) % (MaxVal + 1)]),
      encounter_day |-> Tup([m \in 1..M |-> m % (MaxVal + 1)]),
      encounter_duration |-> Tup([m \in 1..M |-> (2 * seed + m) % (MaxVal + 1)]),
      encounter_partner_id |-> Tup([m \in 1..M |-> (m + 1) % (MaxVal + 1)]),
      mask |-> Tup(mask) ]

\* two patterns of raw values per shape and mask
Seeds == {0, 1}

Batches ==
    UNION { { MkBatch(M, WindowLen, seed, mask, vmask) :
                seed \in Seeds,
                mask \in [1..M -> {0, 1}],
                vmask \in [1..WindowLen -> {0, 1}] } :
            M \in 0..MaxM }

\* a mapping without the required entries
BadBatch == [mask |-> <<>>]

\* the batches used where the diagnose() scopes are under study
DiagBatches ==
    { MkBatch(1, WindowLen, 0, <<1>>, [t \in 1..WindowLen |-> 1]),
      MkBatch(2, WindowLen, 1, <<1, 0>>, [t \in 1..WindowLen |-> IF t = 1 THEN 1 ELSE 0]),
      BadBatch }

-----------------------------------------------------------------------------
(* Actions *)

NoFrame ==
    /\ entities' = <<>>
    /\ expanded_mask' = <<>>
    /\ meta_data' = <<>>
    /\ attention_mask' = <<>>
    /\ sab_idx' = 0
    /\ weights_passed' = <<>>

Init ==
    /\ ctor = "unbuilt"
    /\ cfg = <<>>
    /\ self_attention_blocks = <<>>
    /\ _diagnose = FALSE
    /\ scopes = [c \in Callers |-> <<>>]
    /\ pc = "idle"
    /\ caller = "a"
    /\ inputs = <<>>
    /\ entities = <<>>
    /\ expanded_mask = <<>>
    /\ meta_data = <<>>
    /\ attention_mask = <<>>
    /\ sab_idx = 0
    /\ weights_passed = <<>>
    /\ results = <<>>
    /\ raised = ""
    /\ kept = <<>>
    /\ dataset = <<>>
    /\ human_day_info = <<>>
    /\ sample = <<>>
    /\ samples = <<>>
    /\ collates = <<>>
    /\ loader_exc = ""
    /\ loss_call = <<>>
    /\ loss_result = <<>>
    /\ store = <<>>
    /\ getitem_frame = <<>>
    /\ getitem_pc = "idle"
    /\ getitem_result = <<>>
    /\ heap = <<>>
    /\ caller_info = 0
    /\ returned_info = 0
    /\ transform_calls = 0

\* ContactTracingTransformer(**k): raises ValueError for an unknown duration
\* mode, before the instance exists; otherwise _diagnose = False
Construct(k) ==
    /\ ctor = "unbuilt"
    /\ cfg' = k
    /\ IF DurationKind(k) = "ValueError"
       THEN /\ ctor' = "ValueError"
            /\ self_attention_blocks' = <<>>
       ELSE /\ ctor' = "built"
            /\ self_attention_blocks' = BuildBlocks(k.num_sabs)
    /\ _diagnose' = FALSE
    /\ UNCHANGED << scopes, pc, caller, results, raised >>
    /\ UNCHANGED frame
    /\ UNCHANGED << kept, loaderVars, restVars >>

\* model(b) by caller c: shape wrangling, embeddings, assembly of the merged
\* set, mask, meta-data and attention mask (everything before the loop)
Call(c, b) ==
    /\ ctor = "built"
    /\ pc = "idle"
    /\ caller' = c
    /\ inputs' = b
    /\ results' = <<>>
    /\ IF ~WellFormed(b)
       THEN /\ pc' = "raised"
            /\ raised' = "KeyError"
            /\ NoFrame
       ELSE /\ pc' = "sab"
            /\ raised' = ""
            /\ entities' = MergedEntities(cfg, b)
            /\ expanded_mask' = ExpandedMask(b)
            /\ meta_data' = MetaData(entities')
            /\ attention_mask' = AttentionMask(expanded_mask')
            /\ sab_idx' = 0
            /\ weights_passed' = <<>>
    /\ UNCHANGED << ctor, cfg, self_attention_blocks, _diagnose, scopes >>
    /\ UNCHANGED << kept, loaderVars, restVars >>

\* entities = sab(entities, weights=attention_mask)
ApplyBlock ==
    /\ pc = "sab"
    /\ LET o == BlockOutcome(self_attention_blocks, sab_idx + 1, entities,
                             attention_mask)
       IN  IF o.exc # ""
           THEN /\ pc' = "raised"
                /\ raised' = o.exc
                /\ NoFrame
           ELSE /\ pc' = "mask"
                /\ entities' = o.value
                /\ weights_passed' = Append(weights_passed, attention_mask)
                /\ UNCHANGED << raised, expanded_mask, meta_data, attention_mask,
                                sab_idx >>
    /\ UNCHANGED << ctor, cfg, self_attention_blocks, _diagnose, scopes, caller,
                    inputs, results >>
    /\ UNCHANGED << kept, loaderVars, restVars >>

\* entities = self.entity_masker(entities, expanded_mask)
MaskStep ==
    /\ pc = "mask"
    /\ entities' = MaskRound(entities, expanded_mask)
    /\ pc' = "cat"
    /\ UNCHANGED << ctor, cfg, self_attention_blocks, _diagnose, scopes, caller,
                    inputs, expanded_mask, meta_data, attention_mask, sab_idx,
                    weights_passed, results, raised >>
    /\ UNCHANGED << kept, loaderVars, restVars >>

\* entities = torch.cat([meta_data, entities], dim=2); next block or leave
CatStep ==
    /\ pc = "cat"
    /\ entities' = CatRound(meta_data, entities)
    /\ sab_idx' = sab_idx + 1
    /\ pc' = IF sab_idx + 1 < Len(self_attention_blocks) THEN "sab" ELSE "heads"
    /\ UNCHANGED << ctor, cfg, self_attention_blocks, _diagnose, scopes, caller,
                    inputs, expanded_mask, meta_data, attention_mask,
                    weights_passed, results, raised >>
    /\ UNCHANGED << kept, loaderVars, restVars >>

\* mutant: the call switches the diagnostic flag on and leaves it on
Heads_leavesFlagOn ==
    /\ pc = "heads"
    /\ LET o == HeadsOutcome(_diagnose, cfg, self_attention_blocks, inputs,
                             entities, expanded_mask, meta_data, attention_mask)
       IN  IF o.exc # ""
           THEN /\ pc' = "raised"
                /\ raised' = o.exc
                /\ results' = <<>>
                /\ NoFrame
           ELSE /\ pc' = "done"
                /\ results' = o.value
                /\ UNCHANGED raised
                /\ UNCHANGED << entities, expanded_mask, meta_data,
                                attention_mask, sab_idx, weights_passed >>
    /\ _diagnose' = TRUE
    /\ UNCHANGED << ctor, cfg, self_attention_blocks, scopes, caller, inputs >>
    /\ UNCHANGED << kept, loaderVars, restVars >>

\* the two heads and the result mapping; self._diagnose is read here
Heads ==
    /\ pc = "heads"
    /\ LET o == HeadsOutcome(_diagnose, cfg, self_attention_blocks, inputs,
                             entities, expanded_mask, meta_data, attention_mask)
       IN  IF o.exc # ""
           THEN /\ pc' = "raised"
                /\ raised' = o.exc
                /\ results' = <<>>
                /\ NoFrame
           ELSE /\ pc' = "done"
                /\ results' = o.value
                /\ UNCHANGED raised
                /\ UNCHANGED << entities, expanded_mask, meta_data,
                                attention_mask, sab_idx, weights_passed >>
    /\ UNCHANGED << ctor, cfg, self_attention_blocks, _diagnose, scopes, caller,
                    inputs >>
    /\ UNCHANGED << kept, loaderVars, restVars >>

\* return results: the call's locals are gone, the caller has the mapping
Return ==
    /\ pc = "done"
    /\ pc' = "idle"
    /\ inputs' = <<>>
    /\ results' = <<>>
    /\ NoFrame
    /\ UNCHANGED << ctor, cfg, self_attention_blocks, _diagnose, scopes, caller,
                    raised >>
    /\ UNCHANGED << kept, loaderVars, restVars >>

\* out = model(b): the caller keeps the returned mapping for later use
Keep ==
    /\ pc = "done"
    /\ kept' = [inputs |-> inputs, results |-> results]
    /\ pc' = "idle"
    /\ inputs' = <<>>
    /\ results' = <<>>
    /\ NoFrame
    /\ UNCHANGED << ctor, cfg, self_attention_blocks, _diagnose, scopes, caller,
                    raised >>
    /\ UNCHANGED << loaderVars, restVars >>

\* the exception of a failed call is handled by the caller
Catch ==
    /\ pc = "raised"
    /\ pc' = "idle"
    /\ raised' = ""
    /\ inputs' = <<>>
    /\ UNCHANGED << ctor, cfg, self_attention_blocks, _diagnose, scopes, caller,
                    entities, expanded_mask, meta_data, attention_mask, sab_idx,
                    weights_passed, results >>
    /\ UNCHANGED << kept, loaderVars, restVars >>

-----------------------------------------------------------------------------
(* diagnose(): a generator-based context manager without try/finally       *)

Busy(c) == pc # "idle" /\ caller = c

ActiveScopes == Len(scopes["a"]) + Len(scopes["b"])

\* with self.diagnose(): old_diagnose = self._diagnose; self._diagnose = True
EnterDiagnose(c) ==
    /\ ctor = "built"
    /\ ~Busy(c)
    /\ ActiveScopes < MaxDepth
    /\ scopes' = [scopes EXCEPT ![c] = Append(@, _diagnose)]
    /\ _diagnose' = TRUE
    /\ UNCHANGED << ctor, cfg, self_attention_blocks, pc, caller, results, raised >>
    /\ UNCHANGED frame
    /\ UNCHANGED << kept, loaderVars, restVars >>

\* the with-block ends normally: self._diagnose = old_diagnose
ExitDiagnose(c) ==
    /\ ~Busy(c)
    /\ scopes[c] # <<>>
    /\ _diagnose' = scopes[c][Len(scopes[c])]
    /\ scopes' = [scopes EXCEPT ![c] = SubSeq(@, 1, Len(@) - 1)]
    /\ UNCHANGED << ctor, cfg, self_attention_blocks, pc, caller, results, raised >>
    /\ UNCHANGED frame
    /\ UNCHANGED << kept, loaderVars, restVars >>

\* the with-block raises: the exception is thrown into the generator at its
\* yield, the assignment after the yield never runs
ExitDiagnoseByException(c) ==
    /\ pc = "raised"
    /\ caller = c
    /\ scopes[c] # <<>>
    /\ scopes' = [scopes EXCEPT ![c] = SubSeq(@, 1, Len(@) - 1)]
    /\ UNCHANGED << ctor, cfg, self_attention_blocks, _diagnose, pc, caller,
                    results, raised >>
    /\ UNCHANGED frame
    /\ UNCHANGED << kept, loaderVars, restVars >>

-----------------------------------------------------------------------------
(* src/loader.py: ContactDataset.get and ContactDataset.collate_fn.  An    *)
(* array or tensor is a record of its shape and its elements in row-major  *)
(* order.  The health_profile and current_compartment fields of a sample   *)
(* are not part of this model.                                             *)

HistoryLen == 14
DEFAULT_ENCOUNTER_DURATION == 10
_num_id_bits == 16

MaxDay == 15       \* day_idx in 0..MaxDay
MaxEnc == 2        \* candidate encounters of one record: 0..MaxEnc
MaxBatch == 2      \* samples per batch: 1..MaxBatch

SET_VALUED_FIELDS ==
    << "encounter_health", "encounter_message", "encounter_partner_id",
       "encounter_day", "encounter_duration", "encounter_is_contagion" >>

SampleKeys ==
    { "human_idx", "day_idx", "health_history", "infectiousness_history",
      "history_days", "valid_history_mask", "encounter_health",
      "encounter_message", "encounter_partner_id", "encounter_day",
      "encounter_duration", "encounter_is_contagion" }

Range(f) == {f[i] : i \in DOMAIN f}

RECURSIVE Numel(_)
Numel(shape) == IF shape = <<>> THEN 1 ELSE Head(shape) * Numel(Tail(shape))

RECURSIVE Flatten(_)
Flatten(seqs) == IF seqs = <<>> THEN <<>> ELSE Head(seqs) \o Flatten(Tail(seqs))

SetMax(S) == CHOOSE x \in S : \A y \in S : y <= x

Tensor(shape, data) == [shape |-> shape, data |-> data]

\* np.array of N rows of C numbers each
FromRows(rows, C) == Tensor(<<Len(rows), C>>, Flatten(rows))

\* x[:, None]
NewAxis1(x) == Tensor(<<Head(x.shape), 1>> \o Tail(x.shape), x.data)

\* x[i] for a tensor with at least one dimension (i counted from 1)
Row(x, i) ==
    LET R == Numel(Tail(x.shape))
    IN  Tensor(Tail(x.shape), SubSeq(x.data, (i - 1) * R + 1, i * R))

\* np.unpackbits of one uint8: most significant bit first
Bits8(x) == Tup([j \in 1..8 |-> (x \div (2 ^ (8 - j))) % 2])

\* unpackbits(x.astype("uint16").view("uint8")): the low byte comes first
IdBits(x) == Bits8((x % (2 ^ _num_id_bits)) % 256)
             \o Bits8((x % (2 ^ _num_id_bits)) \div 256)

\* np.arange(day_idx - 13, day_idx + 1)[::-1, None]
history_days_raw(day_idx) ==
    Tensor(<<HistoryLen, 1>>, Tup([t \in 1..HistoryLen |-> day_idx - (t - 1)]))

\* mutant: the days are normalized first and clipped afterwards
history_days_clipLast(ds, day_idx) ==
    LET raw == history_days_raw(day_idx)
        normalized == IF ds.relative_days
                      THEN Tup([t \in 1..HistoryLen |-> raw.data[t] - day_idx])
                      ELSE raw.data
        clipped == IF ds.clip_history_days
                   THEN Tup([t \in 1..HistoryLen |->
                                IF normalized[t] < 0 THEN 0 ELSE normalized[t]])
                   ELSE normalized
    IN  Tensor(raw.shape, clipped)

\* the history_days get returns: clipped to day 0 if asked, then made
\* relative to day_idx if asked
history_days(ds, day_idx) ==
    LET raw == history_days_raw(day_idx)
        clipped == IF ds.clip_history_days
                   THEN Tup([t \in 1..HistoryLen |->
                                IF raw.data[t] < 0 THEN 0 ELSE raw.data[t]])
                   ELSE raw.data
        normalized == IF ds.relative_days
                      THEN Tup([t \in 1..HistoryLen |-> clipped[t] - day_idx])
                      ELSE clipped
    IN  Tensor(raw.shape, normalized)

\* (x >= 0)[:, 0] as floats
NonNegative(x) ==
    Tensor(<<Head(x.shape)>>,
           Tup([t \in 1..Head(x.shape) |-> IF x.data[t] >= 0 THEN 1 ELSE 0]))

\* mutant: the mask is taken from the days as returned
valid_history_mask_afterClip(ds, day_idx) ==
    NonNegative(history_days(ds, day_idx))

\* valid_history_mask = (history_days >= 0)[:, 0], before clipping
valid_history_mask(ds, day_idx) == NonNegative(history_days_raw(day_idx))

\* np.argmax(encounter_day == history_days, axis=0): the first history row of
\* that day, row 0 when there is none
encounter_at_historical_day_idx(encounter_day, day_idx) ==
    LET raw == history_days_raw(day_idx).data
        hits == {t \in 1..HistoryLen : raw[t] = encounter_day}
    IN  IF hits = {} THEN 1 ELSE CHOOSE t \in hits : \A u \in hits : t <= u

\* the encounter_duration get returns: encounter_duration[:, None] of the
\* (M, 1) array of defaults (3 columns) or of column 2 (4 columns)
encounter_duration(encounter_info) ==
    LET M == Len(encounter_info)
    IN  IF Len(encounter_info[1]) = 3
        THEN NewAxis1(Tensor(<<M, 1>>,
                             Tup([m \in 1..M |-> 0 + DEFAULT_ENCOUNTER_DURATION])))
        ELSE NewAxis1(Tensor(<<M>>, Tup([m \in 1..M |-> encounter_info[m][3]])))

\* ContactDataset.get(human_idx, day_idx) on the record info (human_day_info)
get(ds, human_idx, day_idx, info) ==
    LET all == info.candidate_encounters
        valid_encounter_mask == Tup([i \in 1..Len(all) |-> all[i][3] > day_idx - HistoryLen])
        idx == SelectSeq(Tup([i \in 1..Len(all) |-> i]),
                         LAMBDA i : valid_encounter_mask[i])
        encounter_info == Tup([j \in 1..Len(idx) |-> all[idx[j]]])
        M == Len(encounter_info)
        ncols == Len(encounter_info[1])
        encounter_day == Tup([m \in 1..M |-> encounter_info[m][ncols]])
        health_history ==
            Tup([t \in 1..HistoryLen |->
                    info.reported_symptoms[t]
                    \o <<info.test_results[t]>>])
        health_width == Len(health_history[1])
    IN  IF Len(all) = 0 THEN [exc |-> "InvalidSetSize", value |-> <<>>]
        ELSE IF M = 0 THEN [exc |-> "InvalidSetSize", value |-> <<>>]
        ELSE IF ncols \notin {3, 4} THEN [exc |-> "ValueError", value |-> <<>>]
        ELSE [exc |-> "",
              value |->
                [ human_idx |-> Tensor(<<1>>, <<human_idx>>),
                  day_idx |-> Tensor(<<1>>, <<day_idx>>),
                  health_history |-> FromRows(health_history, health_width),
                  infectiousness_history |->
                      NewAxis1(Tensor(<<HistoryLen>>, info.infectiousness)),
                  history_days |-> history_days(ds, day_idx),
                  valid_history_mask |-> valid_history_mask(ds, day_idx),
                  encounter_health |->
                      FromRows(Tup([m \in 1..M |->
                                      health_history[encounter_at_historical_day_idx(
                                                         encounter_day[m], day_idx)]]),
                               health_width),
                  encounter_message |->
                      FromRows(Tup([m \in 1..M |-> Bits8(encounter_info[m][2] % 256)]), 8),
                  encounter_partner_id |->
                      FromRows(Tup([m \in 1..M |-> IdBits(encounter_info[m][1])]),
                               _num_id_bits),
                  encounter_day |->
                      NewAxis1(Tensor(<<M>>,
                          Tup([m \in 1..M |->
                                  IF ds.relative_days THEN encounter_day[m] - day_idx
                                  ELSE encounter_day[m]]))),
                  encounter_duration |-> encounter_duration(encounter_info),
                  encounter_is_contagion |->
                      NewAxis1(Tensor(<<M>>,
                          Tup([j \in 1..M |-> info.exposure_encounter[idx[j]]]))) ]]

\* torch.stack(xs, dim=0): the tensors must have one and the same shape
Stack(xs) ==
    IF \E i \in 1..Len(xs) : xs[i].shape # xs[1].shape
    THEN [exc |-> "RuntimeError", value |-> <<>>]
    ELSE [exc |-> "",
          value |-> Tensor(<<Len(xs)>> \o xs[1].shape,
                           Flatten(Tup([i \in 1..Len(xs) |-> xs[i].data])))]

\* pad_sequence(xs, batch_first=True): zero padding along the first dimension
\* to the longest; the trailing dimensions must agree
pad_sequence(xs) ==
    LET L == SetMax({Head(xs[i].shape) : i \in 1..Len(xs)})
        rest == Tail(xs[1].shape)
        R == Numel(rest)
    IN  IF \E i \in 1..Len(xs) : Tail(xs[i].shape) # rest
        THEN [exc |-> "RuntimeError", value |-> <<>>]
        ELSE [exc |-> "",
              value |->
                Tensor(<<Len(xs), L>> \o rest,
                       Flatten(Tup([i \in 1..Len(xs) |->
                           xs[i].data
                           \o Tup([j \in 1..((L - Head(xs[i].shape)) * R) |-> 0])])))]

\* mutant: arange(max_set_len).le(set_lens) in place of .lt
collate_mask_le(batch) ==
    LET max_set_len == SetMax({Head(batch[i][SET_VALUED_FIELDS[1]].shape) :
                                  i \in 1..Len(batch)})
        set_lens == Tup([i \in 1..Len(batch) |-> Head(batch[i][SET_VALUED_FIELDS[1]].shape)])
    IN  Tensor(<<Len(batch), max_set_len>>,
               Flatten(Tup([i \in 1..Len(batch) |->
                   Tup([m \in 1..max_set_len |->
                           IF (m - 1) <= set_lens[i] THEN 1 ELSE 0])])))

\* the mask of collate_fn: arange(max_set_len).expand(B, .).lt(set_lens[:, None])
collate_mask(batch) ==
    LET max_set_len == SetMax({Head(batch[i][SET_VALUED_FIELDS[1]].shape) :
                                  i \in 1..Len(batch)})
        set_lens == Tup([i \in 1..Len(batch) |-> Head(batch[i][SET_VALUED_FIELDS[1]].shape)])
    IN  Tensor(<<Len(batch), max_set_len>>,
               Flatten(Tup([i \in 1..Len(batch) |->
                   Tup([m \in 1..max_set_len |->
                           IF (m - 1) < set_lens[i] THEN 1 ELSE 0])])))

\* ContactDataset.collate_fn(batch) for a non-empty list of samples
collate_fn(batch) ==
    LET column(key) == Tup([i \in 1..Len(batch) |-> batch[i][key]])
        collated(key) == IF key \in Range(SET_VALUED_FIELDS)
                         THEN pad_sequence(column(key))
                         ELSE Stack(column(key))
        keys == DOMAIN batch[1]
    IN  IF \E key \in keys : collated(key).exc # ""
        THEN [exc |-> "RuntimeError", value |-> <<>>]
        ELSE [exc |-> "",
              value |-> [key \in keys \cup {"mask"} |->
                            IF key = "mask" THEN collate_mask(batch)
                            ELSE collated(key).value]]

-----------------------------------------------------------------------------
(* The records and batches the loader is given *)

DatasetArgs == [relative_days : BOOLEAN, clip_history_days : BOOLEAN]

\* the encounter days of a record of day d: today, the first day of the
\* 14-day window, and the day before the window
EncounterDays(d) ==
    {e \in {d, d - (HistoryLen - 1), d - HistoryLen} : e >= 0}

Durations == {0, 30}

Rows3(d) == { <<257 + e, e % 4, e>> : e \in EncounterDays(d) }
Rows4(d) == { <<257 + e, e % 4, dur, e>> : e \in EncounterDays(d), dur \in Durations }

SeqsUpTo(S, n) == UNION { { Tup(f) : f \in [1..k -> S] } : k \in 0..n }

MkInfo(d, rows) ==
    [ current_day |-> d,
      candidate_encounters |-> rows,
      reported_symptoms |-> Tup([t \in 1..HistoryLen |-> <<(d + t) % 2>>]),
      test_results |-> Tup([t \in 1..HistoryLen |-> (t % 3) - 1]),
      infectiousness |-> Tup([t \in 1..HistoryLen |-> t % 2]),
      exposure_encounter |-> Tup([i \in 1..Len(rows) |-> i % 2]) ]

Infos ==
    UNION { { MkInfo(d, rows) :
                rows \in SeqsUpTo(Rows3(d), MaxEnc) \cup SeqsUpTo(Rows4(d), MaxEnc) } :
            d \in 0..MaxDay }
    \cup { MkInfo(0, << <<257, 0, 0, 0, 0>> >>) }

\* a record of day d with n encounters inside the window, of ncols columns
WindowInfo(d, ncols, n) ==
    MkInfo(d, Tup([i \in 1..n |->
                      LET e == IF d >= i - 1 THEN d - (i - 1) ELSE 0
                      IN  IF ncols = 3 THEN <<257 + i, i % 4, e>>
                          ELSE <<257 + i, i % 4, 30, e>>]))

\* the lists of records a batch is made of: 1..MaxBatch records of one
\* dataset version (3 or 4 columns), each with an encounter in the window
BatchInfos ==
    UNION { SeqsUpTo({ WindowInfo(d, ncols, n) : d \in {0, HistoryLen}, n \in 1..MaxEnc },
                     MaxBatch) \ {<<>>} :
            ncols \in {3, 4} }

-----------------------------------------------------------------------------
(* Actions of the loader *)

LoaderIdle ==
    /\ human_day_info = <<>>
    /\ sample = <<>>
    /\ samples = <<>>
    /\ collates = <<>>
    /\ loader_exc = ""

\* ContactDataset(path, relative_days=..., clip_history_days=...)
NewDataset(args) ==
    /\ dataset = <<>>
    /\ dataset' = args
    /\ UNCHANGED << human_day_info, sample, samples, collates, loader_exc >>
    /\ UNCHANGED << modelVars, restVars >>

\* dataset.get(human_idx, day_idx) where the record read is info
Get(info) ==
    /\ dataset # <<>>
    /\ LoaderIdle
    /\ human_day_info' = info
    /\ LET r == get(dataset, 0, info.current_day, info)
       IN  /\ sample' = r.value
           /\ loader_exc' = r.exc
    /\ UNCHANGED << dataset, samples, collates >>
    /\ UNCHANGED << modelVars, restVars >>

\* the DataLoader gets one sample per record and calls collate_fn on the list
Collate(infos) ==
    /\ dataset # <<>>
    /\ LoaderIdle
    /\ \A i \in 1..Len(infos) : get(dataset, i, infos[i].current_day, infos[i]).exc = ""
    /\ samples' = Tup([i \in 1..Len(infos) |->
                        get(dataset, i, infos[i].current_day, infos[i]).value])
    /\ LET r == collate_fn(samples')
       IN  /\ collates' = r.value
           /\ loader_exc' = r.exc
    /\ UNCHANGED << dataset, human_day_info, sample >>
    /\ UNCHANGED << modelVars, restVars >>

\* the consumer is done with the sample, the batch or the exception
Drop ==
    /\ ~LoaderIdle
    /\ human_day_info' = <<>>
    /\ sample' = <<>>
    /\ samples' = <<>>
    /\ collates' = <<>>
    /\ loader_exc' = ""
    /\ UNCHANGED dataset
    /\ UNCHANGED << modelVars, restVars >>

-----------------------------------------------------------------------------
(* Specifications *)

\* the forward pass of one caller over every batch, no diagnose() scope
Next ==
    \/ \E k \in Configs : Construct(k)
    \/ \E b \in Batches \cup {BadBatch} : Call("a", b)
    \/ ApplyBlock
    \/ MaskStep
    \/ CatStep
    \/ Heads
    \/ Return
    \/ Catch

Spec == Init /\ [][Next]_vars

\* two callers sharing one instance, with diagnose() scopes
NextDiag ==
    \/ \E k \in Configs : Construct(k)
    \/ \E c \in Callers : \E b \in DiagBatches : Call(c, b)
    \/ ApplyBlock
    \/ MaskStep
    \/ CatStep
    \/ Heads
    \/ Return
    \/ Catch
    \/ \E c \in Callers : EnterDiagnose(c)
    \/ \E c \in Callers : ExitDiagnose(c)
    \/ \E c \in Callers : ExitDiagnoseByException(c)

SpecDiag == Init /\ [][NextDiag]_vars

\* one caller making call after call and keeping what a call returned, on an
\* instance built from any keyword arguments
NextCalls ==
    \/ \E k \in CtorArgs : Construct(k)
    \/ \E b \in DiagBatches : Call("a", b)
    \/ ApplyBlock
    \/ MaskStep
    \/ CatStep
    \/ Heads
    \/ Return
    \/ Keep
    \/ Catch

SpecCalls == Init /\ [][NextCalls]_vars

\* the data loader: samples got from records, batches collated from samples
NextLoader ==
    \/ \E args \in DatasetArgs : NewDataset(args)
    \/ \E info \in Infos : Get(info)
    \/ \E infos \in BatchInfos : Collate(infos)
    \/ Drop

SpecLoader == Init /\ [][NextLoader]_vars

-----------------------------------------------------------------------------
(* Vocabulary of the properties *)

MaskedEncounters(b) == {m \in 1..Len(b.mask) : b.mask[m] = 0}
ValidEncounters(b) == {m \in 1..Len(b.mask) : b.mask[m] = 1}
MaskedDays(b) == {t \in 1..Len(b.valid_history_mask) : b.valid_history_mask[t] = 0}
ValidDays(b) == {t \in 1..Len(b.valid_history_mask) : b.valid_history_mask[t] = 1}

\* b with every raw field of encounter slot m replaced by v
ReplaceEncounter(b, m, v) ==
    [b EXCEPT !.encounter_health[m] = v, !.encounter_message[m] = v,
              !.encounter_day[m] = v, !.encounter_duration[m] = v,
              !.encounter_partner_id[m] = v]

\* b with the raw fields of encounter slots m and n exchanged
SwapEncounters(b, m, n) ==
    [b EXCEPT !.encounter_health[m] = b.encounter_health[n],
              !.encounter_health[n] = b.encounter_health[m],
              !.encounter_message[m] = b.encounter_message[n],
              !.encounter_message[n] = b.encounter_message[m],
              !.encounter_day[m] = b.encounter_day[n],
              !.encounter_day[n] = b.encounter_day[m],
              !.encounter_duration[m] = b.encounter_duration[n],
              !.encounter_duration[n] = b.encounter_duration[m],
              !.encounter_partner_id[m] = b.encounter_partner_id[n],
              !.encounter_partner_id[n] = b.encounter_partner_id[m]]

\* b with every raw field of history row t replaced by v
ReplaceDay(b, t, v) ==
    [b EXCEPT !.health_history[t] = v, !.history_days[t] = v]

\* the batches that differ from b in the raw values of one masked position
MaskedPerturbations(b) ==
    {ReplaceEncounter(b, m, v) : m \in MaskedEncounters(b), v \in RawVals}
    \cup {ReplaceDay(b, t, v) : t \in MaskedDays(b), v \in RawVals}

\* the batches that differ from b in the raw values of masked encounter slots
MaskedEncounterPerturbations(b) ==
    {ReplaceEncounter(b, m, v) : m \in MaskedEncounters(b), v \in RawVals}
    \cup {SwapEncounters(b, m, n) : m \in MaskedEncounters(b), n \in MaskedEncounters(b)}

\* the merged mask, read off the batch
MergedMaskBit(b, i) ==
    IF i <= Len(b.mask) THEN b.mask[i] ELSE b.valid_history_mask[i - Len(b.mask)]

MaskedRowsZero(rows, b) ==
    \A i \in 1..Len(rows) :
        MergedMaskBit(b, i) = 0 => \A c \in 1..Len(rows[i]) : rows[i][c] = 0

-----------------------------------------------------------------------------
(* C1: no-leakage.  Whenever a forward call has returned, the same call on *)
(* a batch that differs only in the raw values at a masked position        *)
(* (padded encounter slot or invalid history day) returns too, with the    *)
(* same encounter_variables at every valid encounter and the same          *)
(* latent_variable at every valid day, for every number of rounds.         *)
C1_NoLeakage ==
    (ctor = "built" /\ pc = "done") =>
        \A alt \in MaskedPerturbations(inputs) :
            LET r == Forward(FALSE, cfg, self_attention_blocks, alt)
            IN  /\ r.exc = ""
                /\ \A m \in ValidEncounters(inputs) :
                       r.value.encounter_variables[m] = results.encounter_variables[m]
                /\ \A t \in ValidDays(inputs) :
                       r.value.latent_variable[t] = results.latent_variable[t]

\* a two-round call has returned for a batch with a valid and a masked
\* encounter and a valid and a masked day, and a perturbation changes the batch
C1_Witness ==
    /\ pc = "done"
    /\ cfg.num_sabs = 2
    /\ ValidEncounters(inputs) # {} /\ MaskedEncounters(inputs) # {}
    /\ ValidDays(inputs) # {} /\ MaskedDays(inputs) # {}
    /\ \E alt \in MaskedPerturbations(inputs) :
           encounter_entities(cfg, alt) # encounter_entities(cfg, inputs)

(* C2: the encounter_variables row of a masked encounter slot does not     *)
(* depend on the raw values held by the masked slots: replacing them or    *)
(* exchanging them between masked slots leaves it unchanged.               *)
C2_MaskedOutputsInputIndependent ==
    (ctor = "built" /\ pc = "done") =>
        \A alt \in MaskedEncounterPerturbations(inputs) :
            LET r == Forward(FALSE, cfg, self_attention_blocks, alt)
            IN  /\ r.exc = ""
                /\ \A m \in MaskedEncounters(inputs) :
                       r.value.encounter_variables[m] = results.encounter_variables[m]

\* a call has returned for a full-size batch whose first slot is valid and
\* whose last slot is padding, and a replacement changes the padding's values
C2_Witness ==
    /\ pc = "done"
    /\ cfg.num_sabs >= 1
    /\ Len(inputs.mask) = MaxM
    /\ inputs.mask[1] = 1
    /\ inputs.mask[MaxM] = 0
    /\ \E alt \in MaskedEncounterPerturbations(inputs) : alt # inputs

(* C3: mask-zeroing.  At the input of every block, after the Entity Masker *)
(* of every round, after the meta-data is concatenated back and at the     *)
(* input of the heads, every entity whose merged mask bit is 0 is all-zero,*)
(* and so is its row of the meta-data block.                               *)
C3_MaskZeroing ==
    (ctor = "built" /\ pc \in {"sab", "cat", "heads", "done"}) =>
        /\ MaskedRowsZero(entities, inputs)
        /\ MaskedRowsZero(meta_data, inputs)

\* the masker of the second round has run on a set with masked entities of
\* both kinds, and valid entities carry non-zero features
C3_Witness ==
    /\ pc = "cat"
    /\ sab_idx = 1
    /\ MaskedEncounters(inputs) # {} /\ MaskedDays(inputs) # {}
    /\ \E i \in 1..Len(entities) : \E c \in 1..Len(entities[i]) : entities[i][c] # 0

(* C4: attention masking.  The pairwise mask is 1 at (q, i) iff the merged *)
(* mask is 1 at q and at i, so it is 0 for every query whenever key i is   *)
(* masked; every block call so far was passed exactly this mask.           *)
C4_AttentionMask ==
    (ctor = "built" /\ pc \in {"sab", "mask", "cat", "heads", "done"}) =>
        LET n == Len(inputs.mask) + Len(inputs.valid_history_mask)
            Pairwise(w) ==
                /\ Len(w) = n
                /\ \A q \in 1..n :
                       /\ Len(w[q]) = n
                       /\ \A i \in 1..n :
                              /\ w[q][i] \in {0, 1}
                              /\ w[q][i] = 1 <=>
                                     (MergedMaskBit(inputs, q) = 1
                                      /\ MergedMaskBit(inputs, i) = 1)
        IN  /\ Pairwise(attention_mask)
            /\ Len(weights_passed) = (IF pc \in {"mask", "cat"} THEN sab_idx + 1 ELSE sab_idx)
            /\ \A j \in 1..Len(weights_passed) : Pairwise(weights_passed[j])

\* two blocks were called on a set with a masked and two valid entities
C4_Witness ==
    /\ pc = "mask"
    /\ Len(weights_passed) = 2
    /\ \E i \in 1..Len(expanded_mask) : MergedMaskBit(inputs, i) = 0
    /\ \E i, j \in 1..Len(expanded_mask) :
           i # j /\ MergedMaskBit(inputs, i) = 1 /\ MergedMaskBit(inputs, j) = 1

\* the meta-data block of merged entity i as computed before the first round
RoundZeroMetaData(k, b, i) ==
    LET M == Len(b.mask)
        raw == IF i <= M
               THEN embedded_encounter_day(k, b)[i]
                    \o embedded_encounter_partner_ids(k, b)[i]
                    \o embedded_encounter_duration(k, b)[i]
               ELSE embedded_history_days(k, b)[i - M]
                    \o partner_id_placeholder \o duration_placeholder
    IN  Tup([c \in 1..Len(raw) |-> raw[c] * MergedMaskBit(b, i)])

(* C5: meta-data persistence.  For num_sabs >= 1, after every round and at *)
(* the heads, the first meta_data_dim channels of every entity are the     *)
(* masked time / partner-id / duration embeddings of that entity computed  *)
(* from the batch before the first round (the placeholders for partner id  *)
(* and duration on a self-day), in that order.                             *)
C5_MetaDataPersistence ==
    (ctor = "built" /\ cfg.num_sabs >= 1 /\ sab_idx >= 1
        /\ pc \in {"sab", "heads", "done"}) =>
        \A i \in 1..Len(entities) :
            /\ Len(entities[i]) = meta_data_dim + SabCapacity
            /\ SubSeq(entities[i], 1, meta_data_dim) = RoundZeroMetaData(cfg, inputs, i)

\* the last of two rounds is over, a valid encounter and a valid day carry
\* non-zero meta-data, and the features behind the prefix differ from round 0
C5_Witness ==
    /\ pc = "heads"
    /\ cfg.num_sabs = 2
    /\ sab_idx = 2
    /\ \E m \in ValidEncounters(inputs) :
           \E c \in 1..meta_data_dim : entities[m][c] # 0
    /\ \E t \in ValidDays(inputs) :
           \E c \in 1..meta_data_dim : entities[Len(inputs.mask) + t][c] # 0
    /\ SliceFrom(entities, meta_data_dim)
           # SliceFrom(MergedEntities(cfg, inputs), meta_data_dim)

(* C6: output split.  A returned mapping has one encounter_variables row   *)
(* per encounter slot (M) and one latent_variable row per history day (T); *)
(* row m of encounter_variables is the encounter head on merged row m      *)
(* without its meta-data prefix, row t of latent_variable is the latent    *)
(* head on merged row M + t.                                               *)
C6_OutputSplit ==
    (ctor = "built" /\ pc = "done") =>
        LET M == Len(inputs.encounter_health)
            T == Len(inputs.health_history)
        IN  /\ Len(results.encounter_variables) = M
            /\ Len(results.latent_variable) = T
            /\ Len(entities) = M + T
            /\ \A m \in 1..M :
                   results.encounter_variables[m]
                       = encounter_mlp(<<SubSeq(entities[m], meta_data_dim + 1,
                                                Len(entities[m]))>>)[1]
            /\ \A t \in 1..T :
                   results.latent_variable[t] = latent_variable_mlp(<<entities[M + t]>>)[1]

\* a call has returned for a batch whose number of encounter slots is not zero
\* and differs from the number of history days
C6_Witness ==
    /\ pc = "done"
    /\ Len(inputs.encounter_health) >= 1
    /\ Len(inputs.encounter_health) # Len(inputs.health_history)
    /\ Len(results.encounter_variables) # Len(results.latent_variable)

(* C7: every exit of a diagnose() scope, normal or by an exception of the  *)
(* wrapped computation, leaves the flag at the value saved on entry.       *)
C7_ScopeRestoresFlag ==
    [][\A c \in Callers :
           Len(scopes'[c]) < Len(scopes[c]) =>
               _diagnose' = scopes[c][Len(scopes[c])]]_vars

\* the locals of forward other than self, results and the two outputs
IntermediateNames ==
    { "inputs", "batch_size", "num_history_days", "num_encounters",
      "embedded_health_history", "embedded_health_profile",
      "embedded_encounter_health", "embedded_history_days",
      "embedded_encounter_day", "embedded_encounter_duration",
      "embedded_encounter_partner_ids", "embedded_encounter_messages",
      "expanded_health_profile_per_encounter", "encounter_entities",
      "expanded_message_placeholder", "expanded_pid_placeholder",
      "expanded_duration_placeholder", "expanded_health_profile_per_day",
      "self_entities", "entities", "expanded_mask", "meta_data_dim", "meta_data",
      "attention_mask", "sab", "pre_latent_variable", "pre_encounter_variables" }

(* C8: diagnostic mode is neutral.  Whatever the flag, the mapping a call  *)
(* returns holds the encounter_variables and latent_variable of the same   *)
(* call made with the flag off; with the flag off it holds nothing else,   *)
(* with the flag on it also holds every other local of forward (all but    *)
(* self and results) with the value it has at the end of the pass.         *)
C8_DiagnoseNeutral ==
    [][(pc = "heads" /\ pc' = "done") =>
           LET plain == Forward(FALSE, cfg, self_attention_blocks, inputs)
           IN  /\ plain.exc = ""
               /\ StandardKeys \subseteq DOMAIN results'
               /\ \A key \in StandardKeys : results'[key] = plain.value[key]
               /\ DOMAIN results' =
                      IF _diagnose THEN StandardKeys \cup IntermediateNames
                      ELSE StandardKeys
               /\ _diagnose =>
                      /\ results'.inputs = inputs
                      /\ results'.entities = entities
                      /\ results'.expanded_mask = expanded_mask
                      /\ results'.meta_data = meta_data
                      /\ results'.attention_mask = attention_mask
                      /\ results'.encounter_entities = encounter_entities(cfg, inputs)
                      /\ results'.self_entities = self_entities(cfg, inputs)]_vars

\* a call made inside a diagnose() scope has returned with the intermediates
C8_Witness ==
    /\ pc = "done"
    /\ _diagnose
    /\ scopes[caller] # <<>>
    /\ "entities" \in DOMAIN results
    /\ Len(results.encounter_variables) >= 1

(* C9: a model built with num_sabs = 0 holds the single feed-forward block *)
(* and its forward call on a well-formed batch does not raise and returns  *)
(* one row per encounter slot and one per history day.                     *)
C9_BaselineCompletes ==
    (ctor = "built" /\ cfg.num_sabs = 0) =>
        /\ Len(self_attention_blocks) = 1
        /\ self_attention_blocks[1].kind = "Sequential"
        /\ pc = "raised" => ~WellFormed(inputs)
        /\ pc = "done" =>
               /\ Len(results.encounter_variables) = Len(inputs.encounter_health)
               /\ Len(results.latent_variable) = Len(inputs.health_history)

(* C10: a duration mode other than "thermo" and "sines" makes the          *)
(* constructor raise ValueError: no instance is built with it, so no block *)
(* list exists and no forward call is ever in flight.                      *)
C10_UnknownDurationModeFails ==
    /\ ctor = "built" => cfg.encounter_duration_embedding_mode \in {"thermo", "sines"}
    /\ (ctor # "unbuilt"
        /\ cfg.encounter_duration_embedding_mode \notin {"thermo", "sines"}) =>
           /\ ctor = "ValueError"
           /\ self_attention_blocks = <<>>
           /\ pc = "idle"
           /\ inputs = <<>>

\* the constructor was called with an unknown mode and raised
C10_Witness ==
    /\ ctor = "ValueError"
    /\ cfg.encounter_duration_embedding_mode = "linear"

(* C11: only the two recognized time-embedding modes, learned (True) and   *)
(* positional (False), yield a model instance; any other value of          *)
(* use_learned_time_embedding makes the constructor raise, so no instance  *)
(* is built with it.                                                       *)
C11_UnknownTimeModeFails ==
    /\ ctor = "built" => cfg.use_learned_time_embedding \in TimeFlags
    /\ (ctor # "unbuilt" /\ cfg.use_learned_time_embedding \notin TimeFlags) =>
           /\ ctor \notin {"unbuilt", "built"}
           /\ pc = "idle"

\* the batches that differ from b in encounter_partner_id only
PartnerIdVariants(b) ==
    { [b EXCEPT !.encounter_partner_id = Tup(ids)] :
        ids \in [1..Len(b.encounter_partner_id) -> RawVals] }

\* the shape of a tensor of rows: number of rows and width of each row
RowShape(rows) == Tup([i \in 1..Len(rows) |-> Len(rows[i])])

(* C12: with use_encounter_partner_id_embedding = False the raw            *)
(* encounter_partner_id is ignored.  The partner-id channels of every      *)
(* valid encounter are the learned placeholder at the input of every block *)
(* and of the heads; a returned call returns the same mapping for every    *)
(* batch that differs in encounter_partner_id only; and the same call on   *)
(* the model with the embedding enabled returns outputs of the same shape. *)
C12_PartnerIdIgnored ==
    (ctor = "built" /\ ~cfg.use_encounter_partner_id_embedding
        /\ pc \in {"sab", "heads", "done"}) =>
        /\ \A m \in ValidEncounters(inputs) :
               SubSeq(entities[m], TimeDim + 1, TimeDim + PidDim)
                   = partner_id_placeholder
        /\ pc = "done" =>
               /\ \A alt \in PartnerIdVariants(inputs) :
                      Forward(FALSE, cfg, self_attention_blocks, alt)
                          = [exc |-> "", value |-> results]
               /\ LET on == Forward(FALSE,
                                    [cfg EXCEPT !.use_encounter_partner_id_embedding = TRUE],
                                    self_attention_blocks, inputs)
                  IN  /\ on.exc = ""
                      /\ \A key \in StandardKeys :
                             RowShape(on.value[key]) = RowShape(results[key])

\* a call on a model without the partner-id embedding has returned for a
\* batch with a valid encounter, and another choice of partner ids would
\* change the outputs of the model with the embedding enabled
C12_Witness ==
    /\ pc = "done"
    /\ ~cfg.use_encounter_partner_id_embedding
    /\ ValidEncounters(inputs) # {}
    /\ \E alt \in PartnerIdVariants(inputs) :
           /\ alt # inputs
           /\ Forward(FALSE, [cfg EXCEPT !.use_encounter_partner_id_embedding = TRUE],
                      self_attention_blocks, alt)
                  # Forward(FALSE, [cfg EXCEPT !.use_encounter_partner_id_embedding = TRUE],
                            self_attention_blocks, inputs)

\* a sample without a valid encounter or without a valid history row
Degenerate(b) == ValidEncounters(b) = {} \/ ValidDays(b) = {}

(* C13: degenerate input does not crash.  A forward call on a well-formed  *)
(* batch with no valid encounter (M = 0 or every mask bit 0) or no valid   *)
(* history row never raises, and at the input of every block, after every  *)
(* round and at the heads every masked entity is all-zero.                 *)
C13_DegenerateInputCompletes ==
    (ctor = "built" /\ pc # "idle" /\ WellFormed(inputs) /\ Degenerate(inputs)) =>
        /\ pc # "raised"
        /\ pc \in {"sab", "cat", "heads", "done"} => MaskedRowsZero(entities, inputs)

(* C14: the flag is enabled only for the duration of a diagnose() scope.   *)
(* In every reachable state of two callers entering and leaving scopes on  *)
(* one instance, the flag is True only while at least one scope is active; *)
(* with no scope active it is False, and a call that returns then returns  *)
(* the two standard outputs only.                                          *)
C14_FlagOnlyInScope ==
    ctor = "built" =>
        /\ _diagnose => ActiveScopes >= 1
        /\ (pc = "done" /\ ActiveScopes = 0) => DOMAIN results = StandardKeys

(* C15: a forward call carries no state across calls.  No step of a call  *)
(* changes the configuration, the blocks (parameters) or the diagnostic    *)
(* flag, and a call that returns for the inputs of an earlier returned     *)
(* call on the same instance returns the mapping the earlier call returned,*)
(* whatever calls were made in between.                                    *)
C15_ForwardCarriesNoState ==
    [][/\ pc' # pc =>
              /\ cfg' = cfg
              /\ self_attention_blocks' = self_attention_blocks
              /\ _diagnose' = _diagnose
       /\ (pc = "heads" /\ pc' = "done" /\ kept # <<>> /\ kept.inputs = inputs) =>
              results' = kept.results]_vars

\* a second call with the inputs of a kept earlier call has returned, on a
\* model with two rounds
C15_Witness ==
    /\ pc = "done"
    /\ cfg.num_sabs = 2
    /\ kept # <<>>
    /\ kept.inputs = inputs
    /\ Len(results.encounter_variables) >= 1

\* merged entity i as assembled from the batch, before masking: encounter i
\* for i <= M, self-day i - M after
AssembledEntity(k, b, i) ==
    IF i <= num_encounters(b)
    THEN encounter_entities(k, b)[i]
    ELSE self_entities(k, b)[i - num_encounters(b)]

(* C20: set ordering and mask alignment.  During every call the merged set *)
(* and the merged mask have M + T entries; merged mask bit i is the        *)
(* encounter mask bit i for i <= M and the valid_history_mask bit i - M    *)
(* after; before the first round merged entity i is encounter i (i <= M)   *)
(* or self-day i - M, zeroed iff its bit is 0; and after every round row i *)
(* still carries the meta-data of that same entity.                        *)
C20_SetOrdering ==
    (ctor = "built" /\ pc \in {"sab", "mask", "cat", "heads", "done"}) =>
        LET M == num_encounters(inputs)
            T == num_history_days(inputs)
        IN  /\ Len(entities) = M + T
            /\ Len(expanded_mask) = M + T
            /\ \A i \in 1..(M + T) : expanded_mask[i] = MergedMaskBit(inputs, i)
            /\ (pc = "sab" /\ sab_idx = 0) =>
                   \A i \in 1..(M + T) :
                       entities[i] = IF expanded_mask[i] = 1
                                     THEN AssembledEntity(cfg, inputs, i)
                                     ELSE Tup([c \in 1..sab_in_dim |-> 0])
            /\ (pc \in {"sab", "heads", "done"} /\ sab_idx >= 1) =>
                   \A i \in 1..(M + T) :
                       expanded_mask[i] = 1 =>
                           SubSeq(entities[i], 1, meta_data_dim)
                               = SubSeq(AssembledEntity(cfg, inputs, i), 1, meta_data_dim)

\* the second round is over on a set with valid entities of both kinds, an
\* encounter and a self-day that differ, and a masked encounter slot
C20_Witness ==
    /\ pc = "heads"
    /\ sab_idx = 2
    /\ MaskedEncounters(inputs) # {}
    /\ \E m \in ValidEncounters(inputs) : \E t \in ValidDays(inputs) :
           AssembledEntity(cfg, inputs, m)
               # AssembledEntity(cfg, inputs, num_encounters(inputs) + t)

\* the number of encounters of a sample
SetLen(x) == Head(x.encounter_health.shape)

(* C16: collate_fn returns a mask of shape B x M, M being the largest      *)
(* encounter count of the batch, with mask[b, m] = 1 iff m is below the    *)
(* encounter count of sample b; every set-valued field has B x M leading   *)
(* dimensions, holds encounter m of sample b at every slot with mask 1 and *)
(* zeros at every slot with mask 0.                                        *)
C16_CollateMask ==
    samples # <<>> =>
        LET B == Len(samples)
            M == SetMax({SetLen(samples[i]) : i \in 1..B})
        IN  /\ loader_exc = ""
            /\ collates.mask.shape = <<B, M>>
            /\ \A i \in 1..B : \A m \in 1..M :
                   collates.mask.data[(i - 1) * M + m]
                       = IF m - 1 < SetLen(samples[i]) THEN 1 ELSE 0
            /\ \A n \in 1..Len(SET_VALUED_FIELDS) :
                   LET key == SET_VALUED_FIELDS[n]
                   IN  /\ SubSeq(collates[key].shape, 1, 2) = <<B, M>>
                       /\ \A i \in 1..B : \A m \in 1..M :
                              LET slot == Row(Row(collates[key], i), m)
                              IN  IF collates.mask.data[(i - 1) * M + m] = 1
                                  THEN slot = Row(samples[i][key], m)
                                  ELSE \A j \in 1..Len(slot.data) : slot.data[j] = 0

\* a batch of two samples with different encounter counts has been collated
C16_Witness ==
    /\ Len(samples) = 2
    /\ collates # <<>>
    /\ SetLen(samples[1]) # SetLen(samples[2])
    /\ \E j \in 1..Len(collates.mask.data) : collates.mask.data[j] = 0
    /\ \E j \in 1..Len(collates.mask.data) : collates.mask.data[j] = 1

(* C17: in a sample got for day day_idx, valid_history_mask has one entry  *)
(* per history row and valid_history_mask[t] = 1 iff day_idx - t >= 0      *)
(* (t = 0..13, today first); the valid rows are the first                  *)
(* min(14, day_idx + 1) rows, whatever clip_history_days and relative_days *)
(* are.                                                                    *)
C17_ValidHistoryMask ==
    sample # <<>> =>
        LET d == sample.day_idx.data[1]
            valid == sample.valid_history_mask
            prefix == IF d + 1 < HistoryLen THEN d + 1 ELSE HistoryLen
        IN  /\ valid.shape = <<HistoryLen>>
            /\ Len(valid.data) = HistoryLen
            /\ \A t \in 0..(HistoryLen - 1) :
                   /\ valid.data[t + 1] \in {0, 1}
                   /\ valid.data[t + 1] = 1 <=> d - t >= 0
                   /\ valid.data[t + 1] = 1 <=> t < prefix

\* a sample of a day with fewer than 14 days of history, got from a dataset
\* that clips and normalizes the days: a clipped row holds the same day as
\* the last valid row, and is marked invalid
C17_Witness ==
    /\ sample # <<>>
    /\ dataset.clip_history_days /\ dataset.relative_days
    /\ sample.day_idx.data[1] = 5
    /\ sample.history_days.data[7] = sample.history_days.data[6]
    /\ sample.valid_history_mask.data[6] = 1
    /\ sample.valid_history_mask.data[7] = 0

(* C18: encounter_duration has shape (M, 1) in every sample get returns    *)
(* and shape B x M x 1 in every collated batch, for 3-column and for       *)
(* 4-column encounter records.                                             *)
C18_DurationShape ==
    /\ sample # <<>> =>
           sample.encounter_duration.shape = <<SetLen(sample), 1>>
    /\ (samples # <<>> /\ collates # <<>>) =>
           collates.encounter_duration.shape
               = << Len(samples),
                    SetMax({SetLen(samples[i]) : i \in 1..Len(samples)}), 1 >>

(* C19: history_days of a sample got with relative_days = True: row 0 is 0 *)
(* and no row is positive; row t holds max(day_idx - t, 0) - day_idx with  *)
(* clip_history_days = True and -t with clip_history_days = False, for     *)
(* every day_idx and t in 0..13.                                           *)
C19_HistoryDaysEncoding ==
    (sample # <<>> /\ dataset.relative_days) =>
        LET d == sample.day_idx.data[1]
            days == sample.history_days
        IN  /\ days.shape = <<HistoryLen, 1>>
            /\ days.data[1] = 0
            /\ \A t \in 0..(HistoryLen - 1) :
                   /\ days.data[t + 1] <= 0
                   /\ days.data[t + 1] =
                          IF dataset.clip_history_days
                          THEN (IF d - t > 0 THEN d - t ELSE 0) - d
                          ELSE 0 - t

\* on day 5 history_days[10] is -5 in a sample of a clipping dataset
C19_Witness ==
    /\ sample # <<>>
    /\ dataset.relative_days /\ dataset.clip_history_days
    /\ sample.day_idx.data[1] = 5
    /\ sample.history_days.data[11] = 0 - 5

-----------------------------------------------------------------------------
(* Channel layout and widths of the entity matrix *)

\* a row of the merged set cut into its six channels, in the order and with
\* the widths the constructor gives the embedders
Channels(row) ==
    LET o1 == TimeDim
        o2 == o1 + PidDim
        o3 == o2 + DurDim
        o4 == o3 + HealthDim
        o5 == o4 + MsgDim
        o6 == o5 + ProfileDim
    IN  [ time |-> SubSeq(row, 1, o1),
          pid |-> SubSeq(row, o1 + 1, o2),
          duration |-> SubSeq(row, o2 + 1, o3),
          health |-> SubSeq(row, o3 + 1, o4),
          message |-> SubSeq(row, o4 + 1, o5),
          profile |-> SubSeq(row, o5 + 1, o6) ]

\* what each channel of merged entity i must hold: the embeddings of
\* encounter i for i <= M, and for self-day i - M the day and health
\* embeddings with the three learned placeholders
ExpectedChannels(k, b, i) ==
    LET M == num_encounters(b)
    IN  IF i <= M
        THEN [ time |-> embedded_encounter_day(k, b)[i],
               pid |-> embedded_encounter_partner_ids(k, b)[i],
               duration |-> embedded_encounter_duration(k, b)[i],
               health |-> embedded_encounter_health(k, b)[i],
               message |-> embedded_encounter_messages(k, b)[i],
               profile |-> embedded_health_profile(k, b) ]
        ELSE [ time |-> embedded_history_days(k, b)[i - M],
               pid |-> partner_id_placeholder,
               duration |-> duration_placeholder,
               health |-> embedded_health_history(k, b)[i - M],
               message |-> message_placeholder,
               profile |-> embedded_health_profile(k, b) ]

(* C21: channel layout.  Before the first round every valid entity of the  *)
(* merged set, encounter or self-day, carries its channels in the order    *)
(* time, partner-id, duration, health, message, profile, a self-day having *)
(* the learned partner-id, duration and message placeholders in those      *)
(* channels; and the meta-data kept for the whole call is, for both kinds, *)
(* exactly the time, partner-id and duration channels.                     *)
C21_ChannelLayout ==
    (ctor = "built" /\ pc \in {"sab", "mask", "cat", "heads", "done"}) =>
        \A i \in 1..Len(expanded_mask) :
            expanded_mask[i] = 1 =>
                LET e == ExpectedChannels(cfg, inputs, i)
                IN  /\ (pc = "sab" /\ sab_idx = 0) =>
                           /\ Len(entities[i]) = sab_in_dim
                           /\ Channels(entities[i]) = e
                    /\ meta_data[i] = e.time \o e.pid \o e.duration

\* the merged set is assembled with a valid encounter and a valid self-day
\* whose partner-id, duration and message channels differ from each other
C21_Witness ==
    /\ pc = "sab"
    /\ sab_idx = 0
    /\ \E m \in ValidEncounters(inputs) : \E t \in ValidDays(inputs) :
           LET e == Channels(entities[m])
               s == Channels(entities[num_encounters(inputs) + t])
           IN  /\ s.pid = partner_id_placeholder
               /\ s.duration = duration_placeholder
               /\ s.message = message_placeholder
               /\ e.duration # s.duration
               /\ e.message # s.message

\* every row of a (B = 1) tensor has w channels
RowsHaveWidth(rows, w) == \A i \in 1..Len(rows) : Len(rows[i]) = w

(* C22: width consistency.  With num_sabs >= 1 the first block is built    *)
(* for the sum of the six channel widths, which is the width of the merged *)
(* set it receives; every later block is built for capacity plus meta-data *)
(* width, which is the width it receives after the re-injection; the       *)
(* meta-data sliced at run time has the constructor's meta-data width; the *)
(* matrix the heads read has width capacity plus meta-data width; and no   *)
(* call fails on a width mismatch, with the partner-id embedding enabled   *)
(* or disabled.                                                            *)
C22_WidthConsistency ==
    (ctor = "built" /\ cfg.num_sabs >= 1) =>
        /\ Len(self_attention_blocks) = cfg.num_sabs
        /\ self_attention_blocks[1].dim_in
               = TimeDim + PidDim + DurDim + HealthDim + MsgDim + ProfileDim
        /\ \A n \in 2..Len(self_attention_blocks) :
               self_attention_blocks[n].dim_in
                   = SabCapacity + (TimeDim + PidDim + DurDim)
        /\ pc = "sab" =>
               RowsHaveWidth(entities, self_attention_blocks[sab_idx + 1].dim_in)
        /\ pc \in {"sab", "mask", "cat", "heads"} =>
               RowsHaveWidth(meta_data, TimeDim + PidDim + DurDim)
        /\ pc = "mask" => RowsHaveWidth(entities, SabCapacity)
        /\ pc = "heads" =>
               RowsHaveWidth(entities, SabCapacity + (TimeDim + PidDim + DurDim))
        /\ pc = "raised" => raised # "RuntimeError"

\* the second of two blocks is about to run on a set with a valid encounter,
\* the partner-id embedding being disabled
C22_Witness ==
    /\ ctor = "built"
    /\ cfg.num_sabs = 2
    /\ ~cfg.use_encounter_partner_id_embedding
    /\ pc = "sab"
    /\ sab_idx = 1
    /\ ValidEncounters(inputs) # {}
    /\ Width(entities) = sab_intermediate_in_dim
    /\ sab_intermediate_in_dim # sab_in_dim

-----------------------------------------------------------------------------
(* Order of the steps of a round *)

(* C23: per-round ordering.  In each round the block runs first and is     *)
(* given the pairwise attention mask, then the entity masker is applied    *)
(* with the merged mask to the block's output, then the round-0 meta-data  *)
(* is prepended; the masker step follows every block, the last included,   *)
(* and the heads read the matrix only after the meta-data was prepended.   *)
C23_RoundOrder ==
    [][ /\ (pc = "sab" /\ pc' # "raised") =>
               /\ pc' = "mask"
               /\ weights_passed'
                      = Append(weights_passed, AttentionMask(expanded_mask))
               /\ entities' = SABForward(sab_idx + 1, SabCapacity, entities,
                                         AttentionMask(expanded_mask))
        /\ pc = "mask" =>
               /\ pc' = "cat"
               /\ entities' = entity_masker(entities, expanded_mask)
               /\ sab_idx' = sab_idx
        /\ pc = "cat" =>
               /\ pc' \in {"sab", "heads"}
               /\ Len(entities') = Len(entities)
               /\ \A i \in 1..Len(entities) :
                      entities'[i] = meta_data[i] \o entities[i]
               /\ sab_idx' = sab_idx + 1
               /\ pc' = "heads" <=> sab_idx' = Len(self_attention_blocks)
        /\ pc' = "mask" => pc = "sab"
        /\ pc' = "cat" => pc = "mask"
        /\ pc' = "heads" => pc = "cat"
        /\ (pc = "heads" /\ pc' = "done") =>
               /\ entities' = entities
               /\ Len(weights_passed) = Len(self_attention_blocks)
      ]_vars

\* the masker has just run on the output of the last of two blocks, on a set
\* with a masked self-day, and the meta-data is not prepended yet
C23_Witness ==
    /\ ctor = "built"
    /\ cfg.num_sabs = 2
    /\ pc = "cat"
    /\ sab_idx = 1
    /\ Len(weights_passed) = 2
    /\ MaskedDays(inputs) # {}
    /\ Width(entities) = SabCapacity
    /\ \E i \in 1..Len(entities) : \E c \in 1..SabCapacity : entities[i][c] # 0

\* the exceptions a block call inside the loop can end the call with
LoopExceptions == {"TypeError", "RuntimeError"}

\* the number of rounds the configuration asks for
ConfiguredRounds(k) == IF k.num_sabs >= 1 THEN k.num_sabs ELSE 1

(* C24: fixed number of rounds.  Every call leaves the loop after exactly  *)
(* num_sabs rounds when num_sabs >= 1 and after exactly one round, that of *)
(* the substituted feed-forward block, when num_sabs <= 0, whatever the    *)
(* batch: inside the loop fewer rounds than that are done, the heads are   *)
(* reached with exactly that many done, and no call ends inside the loop.  *)
C24_FixedRounds ==
    ctor = "built" =>
        /\ pc \in {"sab", "mask", "cat"} => sab_idx < ConfiguredRounds(cfg)
        /\ pc \in {"heads", "done"} => sab_idx = ConfiguredRounds(cfg)
        /\ pc = "raised" => raised \notin LoopExceptions

-----------------------------------------------------------------------------
(* What the two heads read *)

(* C25: channel ranges of the heads.  The encounter head receives rows     *)
(* 1..M of the final matrix without their meta-data prefix, that is the    *)
(* capacity channels that follow it, and the latent-variable head receives *)
(* rows M+1..M+T with all capacity plus meta-data channels; each head's    *)
(* configured input width is the width of the rows it receives, so the     *)
(* heads do not fail, and the results are the heads applied to these rows. *)
C25_HeadInputs ==
    (ctor = "built" /\ pc \in {"heads", "done"}) =>
        LET M == num_encounters(inputs)
            T == num_history_days(inputs)
            enc == pre_encounter_variables(entities, M)
            lat == pre_latent_variable(entities, M)
        IN  /\ Len(enc) = M
            /\ \A m \in 1..M :
                   /\ Len(enc[m]) = encounter_mlp_in_features
                   /\ Len(enc[m]) = SabCapacity
                   /\ SubSeq(entities[m], 1, TimeDim + PidDim + DurDim) \o enc[m]
                          = entities[m]
            /\ Len(lat) = T
            /\ \A t \in 1..T :
                   /\ Len(lat[t]) = latent_variable_mlp_in_features
                   /\ Len(lat[t]) = SabCapacity + (TimeDim + PidDim + DurDim)
                   /\ lat[t] = entities[M + t]
            /\ pc = "heads" =>
                   HeadsOutcome(_diagnose, cfg, self_attention_blocks, inputs,
                                entities, expanded_mask, meta_data,
                                attention_mask).exc = ""
            /\ pc = "done" =>
                   /\ results.encounter_variables = encounter_mlp(enc)
                   /\ results.latent_variable = latent_variable_mlp(lat)

\* a call has returned for a batch with a valid encounter whose meta-data
\* prefix is not zero and with fewer encounters than days
C25_Witness ==
    /\ pc = "done"
    /\ num_encounters(inputs) < num_history_days(inputs)
    /\ \E m \in ValidEncounters(inputs) :
           /\ \E c \in 1..meta_data_dim : entities[m][c] # 0
           /\ Len(results.encounter_variables) = num_encounters(inputs)
           /\ Len(pre_encounter_variables(entities, num_encounters(inputs))[m])
                  < Len(entities[m])

-----------------------------------------------------------------------------
(* src/ctt/losses.py.  Tensors are nested tuples: x[b][n][c] for a tensor of *)
(* shape (B, N, C), x[b][n] for one of shape (B, N).  Floating point values  *)
(* that a division produces are exact fractions, nan or inf.                 *)

MaxLossB == 2
MaxLossN == 2

RECURSIVE GCD(_, _)
GCD(a, b) == IF b = 0 THEN a ELSE GCD(b, a % b)

NaN == [kind |-> "nan"]
PosInf == [kind |-> "inf"]
Frac(n, d) ==
    LET g == GCD(n, d) IN [kind |-> "num", num |-> n \div g, den |-> d \div g]

\* x / y on non-negative floats: 0 / 0 is nan, x / 0 is inf
TrueDiv(x, y) ==
    IF y # 0 THEN Frac(x, y) ELSE IF x = 0 THEN NaN ELSE PosInf

RECURSIVE FracSum(_)
FracSum(xs) ==
    IF xs = <<>> THEN Frac(0, 1)
    ELSE LET h == Head(xs)
             r == FracSum(Tail(xs))
         IN  Frac(h.num * r.den + r.num * h.den, h.den * r.den)

\* x.mean() of a 1-d tensor: nan as soon as one element is nan
Mean(xs) ==
    IF xs = <<>> \/ \E i \in 1..Len(xs) : xs[i].kind = "nan" THEN NaN
    ELSE IF \E i \in 1..Len(xs) : xs[i].kind = "inf" THEN PosInf
    ELSE LET t == FracSum(xs) IN Frac(t.num, t.den * Len(xs))

\* nn.MSELoss(reduction="none"): the squared difference, element by element
MSELoss(input, target) ==
    Tup([b \in 1..Len(input) |->
            Tup([n \in 1..Len(input[b]) |->
                    Tup([c \in 1..Len(input[b][n]) |->
                            (input[b][n][c] - target[b][n][c])
                                * (input[b][n][c] - target[b][n][c])])])])

\* loss_elements[..., 0] * mask
masked_loss_elements(loss_elements, mask) ==
    Tup([b \in 1..Len(loss_elements) |->
            Tup([n \in 1..Len(loss_elements[b]) |->
                    loss_elements[b][n][1] * mask[b][n]])])

\* EntityMaskedLoss(nn.MSELoss).forward, as InfectiousnessLoss calls it: input
\* and target of shape (B, N, 1), mask of shape (B, N)
EntityMaskedLoss_forward(input, target, mask) ==
    LET masked == masked_loss_elements(MSELoss(input, target), mask)
    IN  Mean(Tup([b \in 1..Len(masked) |->
                     TrueDiv(Sum(masked[b]), Sum(mask[b]))]))

\* torch.argmax(x, dim=1) of one row: the 0-based index of the first maximum
argmax(row) ==
    (CHOOSE i \in 1..Len(row) :
         /\ \A j \in 1..Len(row) : row[j] <= row[i]
         /\ \A j \in 1..(i - 1) : row[j] < row[i]) - 1

\* mutant: the index is not moved to the right of the logit sink
_prepare_single_exposure_targets_noShift(target_onehots) ==
    Tup([b \in 1..Len(target_onehots) |->
            LET row == Tup([m \in 1..Len(target_onehots[b]) |->
                               target_onehots[b][m][1]])
            IN  IF \A m \in 1..Len(row) : row[m] <= 0 THEN 0 ELSE argmax(row)])

\* ContagionLoss._prepare_single_exposure_targets on a (B, M, 1) tensor with
\* M >= 1: target_onehots[:, :, 0], then 0 where the row's maximum is 0 and
\* argmax + 1 elsewhere
_prepare_single_exposure_targets(target_onehots) ==
    Tup([b \in 1..Len(target_onehots) |->
            LET row == Tup([m \in 1..Len(target_onehots[b]) |->
                               target_onehots[b][m][1]])
                nonehot == \A m \in 1..Len(row) : row[m] <= 0
            IN  IF nonehot THEN 0 ELSE argmax(row) + 1])

\* torch.cat([logit_sink, contagion_logit[:, :, 0]], dim=1)
full_logit(contagion_logit) ==
    Tup([b \in 1..Len(contagion_logit) |->
            <<0>> \o Tup([m \in 1..Len(contagion_logit[b]) |->
                             contagion_logit[b][m][1]])])

\* ContagionLoss(allow_multiple_exposures=False).forward up to the call of
\* F.cross_entropy: its two arguments.  x.max(1) over a dimension of size 0
\* raises (IndexError in current torch).
ContagionLoss_forward(contagion_logit, encounter_is_contagion) ==
    IF \E b \in 1..Len(encounter_is_contagion) : encounter_is_contagion[b] = <<>>
    THEN [exc |-> "IndexError", value |-> <<>>]
    ELSE [exc |-> "",
          value |-> [ full_logit |-> full_logit(contagion_logit),
                      target_onehots |->
                          _prepare_single_exposure_targets(encounter_is_contagion) ]]

(* inputs of the loss calls *)

LossSeeds == {0, 1, 2}

\* the (B, N) tensors with entries in S
Matrices(B, N, S) ==
    { Tup([b \in 1..B |-> Tup(f[b])]) : f \in [1..B -> [1..N -> S]] }

\* a (B, N, 1) tensor of small values made from a seed
SeededTensor(B, N, seed, modulus) ==
    Tup([b \in 1..B |-> Tup([n \in 1..N |-> <<(seed + b * n + n) % modulus>>])])

MaskedLossArgs ==
    { [ input |-> SeededTensor(Len(mask), Len(mask[1]), seed, 3),
        target |-> SeededTensor(Len(mask), Len(mask[1]), 2 * seed + 1, 2),
        mask |-> mask ] :
      seed \in LossSeeds,
      mask \in UNION { Matrices(B, N, {0, 1}) :
                         B \in 1..MaxLossB, N \in 1..MaxLossN } }

ExposureArgs ==
    { [ contagion_logit |-> SeededTensor(Len(labels), Len(labels[1]), seed, 3),
        encounter_is_contagion |->
            Tup([b \in 1..Len(labels) |->
                    Tup([m \in 1..Len(labels[b]) |-> <<labels[b][m]>>])]) ] :
      seed \in LossSeeds,
      labels \in UNION { Matrices(B, M, {0, 1}) :
                           B \in 1..MaxLossB, M \in 0..MaxLossN } }

\* loss = masked_mse(input, target, mask)
MaskedLoss(a) ==
    /\ loss_call = <<>>
    /\ loss_call' = [fn |-> "EntityMaskedLoss.forward", args |-> a]
    /\ loss_result' = [exc |-> "",
                       value |-> EntityMaskedLoss_forward(a.input, a.target, a.mask)]
    /\ UNCHANGED << modelVars, loaderVars, itemVars, transformVars >>

\* loss = ContagionLoss(allow_multiple_exposures=False)(model_input, model_output)
SingleExposure(a) ==
    /\ loss_call = <<>>
    /\ loss_call' = [fn |-> "ContagionLoss.forward", args |-> a]
    /\ loss_result' = ContagionLoss_forward(a.contagion_logit,
                                            a.encounter_is_contagion)
    /\ UNCHANGED << modelVars, loaderVars, itemVars, transformVars >>

\* the training step is done with the loss value
LossDrop ==
    /\ loss_call # <<>>
    /\ loss_call' = <<>>
    /\ loss_result' = <<>>
    /\ UNCHANGED << modelVars, loaderVars, itemVars, transformVars >>

NextLoss ==
    \/ \E a \in MaskedLossArgs : MaskedLoss(a)
    \/ \E a \in ExposureArgs : SingleExposure(a)
    \/ LossDrop

SpecLoss == Init /\ [][NextLoss]_vars

\* the rows of a mask with at least one valid entity
ValidRows(mask) == { b \in 1..Len(mask) : \E n \in 1..Len(mask[b]) : mask[b][n] = 1 }

\* the mean of the valid elements' losses of row b
RowLoss(a, b) ==
    LET valid == { n \in 1..Len(a.mask[b]) : a.mask[b][n] = 1 }
        sq(n) == (a.input[b][n][1] - a.target[b][n][1])
                     * (a.input[b][n][1] - a.target[b][n][1])
        idx == Tup([n \in 1..Len(a.mask[b]) |-> IF n \in valid THEN sq(n) ELSE 0])
    IN  Frac(Sum(idx), Cardinality(valid))

(* C26: masked loss aggregation.  EntityMaskedLoss.forward returns a       *)
(* well-defined number, whatever the mask: elements at mask 0 contribute   *)
(* nothing, and a row whose mask is all zero is left out, the result being *)
(* the mean over the remaining rows of each row's mean loss over its valid *)
(* elements, with no division by a zero count.                             *)
C26_MaskedLossWellDefined ==
    (loss_call # <<>> /\ loss_call.fn = "EntityMaskedLoss.forward") =>
        LET a == loss_call.args
            rows == ValidRows(a.mask)
            order == CHOOSE s \in [1..Cardinality(rows) -> rows] :
                         \A i, j \in 1..Cardinality(rows) : i # j => s[i] # s[j]
        IN  /\ loss_result.exc = ""
            /\ loss_result.value.kind = "num"
            /\ rows # {} =>
                   loss_result.value
                       = Mean(Tup([i \in 1..Cardinality(rows) |->
                                      RowLoss(a, order[i])]))

\* the encounters of row b flagged as the contagion
Flagged(labels, b) == { m \in 1..Len(labels[b]) : labels[b][m][1] > 0 }

-----------------------------------------------------------------------------
(* The encounters a sample keeps *)

\* the day of encounter i of a record: the last of its 3 or 4 columns
DayOfEncounter(info, i) ==
    info.candidate_encounters[i][Len(info.candidate_encounters[i])]

\* the indices, in order, of the candidate encounters of day > day_idx - 14
InWindow(info) ==
    SelectSeq(Tup([i \in 1..Len(info.candidate_encounters) |-> i]),
              LAMBDA i : DayOfEncounter(info, i) > info.current_day - HistoryLen)

(* C28: window filter.  For a record with 3 or 4 columns per encounter,    *)
(* get keeps exactly the candidate encounters whose encounter day is later *)
(* than day_idx - 14, in their order, raises InvalidSetSize if and only if *)
(* none is left, and keeps the contagion labels of the same encounters.    *)
C28_WindowFilter ==
    (/\ human_day_info # <<>>
     /\ \A i \in 1..Len(human_day_info.candidate_encounters) :
            Len(human_day_info.candidate_encounters[i]) \in {3, 4}) =>
        LET info == human_day_info
            kept_idx == InWindow(info)
        IN  /\ loader_exc = "InvalidSetSize" <=> kept_idx = <<>>
            /\ loader_exc = "" =>
                   /\ Len(sample.encounter_day.data) = Len(kept_idx)
                   /\ \A j \in 1..Len(kept_idx) :
                          sample.encounter_day.data[j]
                              = IF dataset.relative_days
                                THEN DayOfEncounter(info, kept_idx[j]) - info.current_day
                                ELSE DayOfEncounter(info, kept_idx[j])
                   /\ sample.encounter_is_contagion.data
                          = Tup([j \in 1..Len(kept_idx) |->
                                    info.exposure_encounter[kept_idx[j]]])

-----------------------------------------------------------------------------
(* ContactDataset.__getitem__ over a directory of records.  The directory  *)
(* is a function from file names <<day_idx, human>> (the file              *)
(* "{day_idx}-{human}.pkl", humans numbered from 1) to records.            *)

MaxHumans == 2
MaxDays == 2

\* _read_data: self._num_days and self._num_humans from the file names
num_days(files) == SetMax({ f[1] : f \in DOMAIN files }) + 1
num_humans(files) == SetMax({ f[2] : f \in DOMAIN files })

\* __len__
DatasetLen(files) == num_humans(files) * num_days(files)

\* the indices a sampler draws: range(len(dataset))
Items(files) == IF files = <<>> THEN {} ELSE 0..(DatasetLen(files) - 1)

\* read(human_idx, day_idx): the content of f"{day_idx}-{human_idx + 1}.pkl"
read(files, human_idx, day_idx) == files[<<day_idx, human_idx + 1>>]

\* np.unravel_index(item, (num_humans, num_days))
unravel_index(item, files) ==
    [ human_idx |-> item \div num_days(files), day_idx |-> item % num_days(files) ]

\* the record of day d: one encounter of that day, or no candidate encounter
DayRecord(d, met) ==
    IF met THEN MkInfo(d, << <<257 + d, d % 4, d>> >>) ELSE MkInfo(d, <<>>)

\* the directories: every human has a record for every day, and there are at
\* least two days, so that a retry moves on to another day
Stores ==
    UNION { { [n \in (0..(D - 1)) \X (1..H) |-> DayRecord(n[1], met[n])] :
                met \in [(0..(D - 1)) \X (1..H) -> BOOLEAN] } :
            H \in 1..MaxHumans, D \in 2..MaxDays }

\* ContactDataset(path, ...)._read_data() on the directory s
ReadData(s) ==
    /\ dataset # <<>>
    /\ store = <<>>
    /\ store' = s
    /\ UNCHANGED << getitem_frame, getitem_pc, getitem_result >>
    /\ UNCHANGED << modelVars, loaderVars, lossVars, transformVars >>

\* dataset[it]: human_idx, day_idx = np.unravel_index(...), then the loop
GetItemCall(it) ==
    /\ store # <<>>
    /\ getitem_pc = "idle"
    /\ getitem_frame' = [item |-> it] @@ unravel_index(it, store)
    /\ getitem_pc' = "try"
    /\ getitem_result' = <<>>
    /\ UNCHANGED store
    /\ UNCHANGED << modelVars, loaderVars, lossVars, transformVars >>

\* one iteration of `while True`: return self.get(human_idx, day_idx), or on
\* InvalidSetSize day_idx = (day_idx + 1) % self.num_days and go round again;
\* any other exception leaves the call
GetItemTry ==
    /\ getitem_pc = "try"
    /\ LET r == get(dataset, getitem_frame.human_idx, getitem_frame.day_idx,
                    read(store, getitem_frame.human_idx, getitem_frame.day_idx))
       IN  IF r.exc = ""
           THEN /\ getitem_pc' = "returned"
                /\ getitem_result' = r
                /\ UNCHANGED getitem_frame
           ELSE IF r.exc = "InvalidSetSize"
           THEN /\ getitem_frame' =
                       [getitem_frame EXCEPT
                            !.day_idx = (getitem_frame.day_idx + 1) % num_days(store)]
                /\ UNCHANGED << getitem_pc, getitem_result >>
           ELSE /\ getitem_pc' = "raised"
                /\ getitem_result' = r
                /\ UNCHANGED getitem_frame
    /\ UNCHANGED store
    /\ UNCHANGED << modelVars, loaderVars, lossVars, transformVars >>

\* the caller is done with the sample
GetItemDrop ==
    /\ getitem_pc \in {"returned", "raised"}
    /\ getitem_pc' = "idle"
    /\ getitem_frame' = <<>>
    /\ getitem_result' = <<>>
    /\ UNCHANGED store
    /\ UNCHANGED << modelVars, loaderVars, lossVars, transformVars >>

NextItems ==
    \/ \E args \in DatasetArgs : NewDataset(args)
    \/ \E s \in Stores : ReadData(s)
    \/ \E it \in Items(store) : GetItemCall(it)
    \/ GetItemTry
    \/ GetItemDrop

\* the loop of a call in flight keeps running
SpecItems == Init /\ [][NextItems]_vars /\ WF_vars(GetItemTry)

(* C27: __getitem__ terminates.  Every call dataset[item] with item in     *)
(* [0, len(dataset)) eventually returns a sample, also for a human none of *)
(* whose days has an in-window encounter.                                  *)
C27_GetItemTerminates == (getitem_pc = "try") ~> (getitem_pc = "returned")

-----------------------------------------------------------------------------
(* src/ctt/data_loading/transforms.py: the pre-transforms.  Python objects *)
(* live in a heap and are held by reference: a dict maps its keys to       *)
(* references, dict(d) makes a new dict with the same references, and      *)
(* d[k] = v changes the dict object d for everyone who holds it.           *)

SymptomDays == 2
MaxTransformCalls == 2

\* ctt.utils.Symptoms: the columns of reported_symptoms and the groups of
\* columns that are dropped in together
NumSymptoms == 4
LIGHT_TROUBLE_BREATHING == 1
MILD_TROUBLE_BREATHING == 2
MILD == 3
DROP_IN_GROUPS == << <<3>>, <<2, 4>> >>

DictObj(items) == [type |-> "dict", items |-> items]
ArrayObj(value) == [type |-> "ndarray", value |-> value]
IntObj(value) == [type |-> "int", value |-> value]

\* the value reachable from a reference, nested dicts followed
RECURSIVE DeepValue(_, _)
DeepValue(h, ref) ==
    IF h[ref].type = "dict"
    THEN [k \in DOMAIN h[ref].items |-> DeepValue(h, h[ref].items[k])]
    ELSE h[ref].value

Max2(x, y) == IF x >= y THEN x ELSE y
Min2(x, y) == IF x <= y THEN x ELSE y

\* PatchTroubleBreathing.apply: a copy of the symptoms is patched and stored
\* under human_day_info["observed"]["reported_symptoms"]
PatchTroubleBreathing_apply(h, info) ==
    LET observed == h[info].items.observed
        old == h[h[observed].items.reported_symptoms].value
        symptoms ==
            Tup([t \in 1..Len(old) |->
                    Tup([c \in 1..Len(old[t]) |->
                            IF c \in {LIGHT_TROUBLE_BREATHING, MILD_TROUBLE_BREATHING, MILD}
                            THEN Max2(old[t][LIGHT_TROUBLE_BREATHING],
                                      old[t][MILD_TROUBLE_BREATHING])
                            ELSE old[t][c]])])
        h1 == Append(h, ArrayObj(symptoms))
    IN  [ heap |-> [h1 EXCEPT ![observed].items.reported_symptoms = Len(h1)],
          ref |-> info ]

\* the outcomes of the np.random draws of DropInSymptomGroups.apply
Randoms ==
    [ drop_in_now : {0, 1},
      noise_coarseness : {0, 1},
      symptom_groups : SUBSET (1..Len(DROP_IN_GROUPS)),
      drop_out_on_drop_in_mask : { Tup(f) : f \in [1..SymptomDays -> {0, 1}] } ]

\* DropInSymptomGroups.apply with the default configuration
DropInSymptomGroups_apply(h, info, rnd) ==
    LET observed == h[info].items.observed
        old == h[h[observed].items.reported_symptoms].value
        columns == UNION { Range(DROP_IN_GROUPS[g]) : g \in rnd.symptom_groups }
        coarse == Tup([t \in 1..Len(old) |->
                          Tup([c \in 1..Len(old[t]) |->
                                  IF c \in columns THEN 1 ELSE old[t][c]])])
        fine == Tup([t \in 1..Len(old) |->
                        Tup([c \in 1..Len(old[t]) |->
                                Min2(old[t][c]
                                       + rnd.drop_out_on_drop_in_mask[t]
                                           * (IF c \in columns THEN 1 ELSE 0),
                                     1)])])
        h1 == Append(h, ArrayObj(IF rnd.noise_coarseness = 1 THEN coarse ELSE fine))
    IN  IF rnd.drop_in_now = 1
        THEN [ heap |-> [h1 EXCEPT ![observed].items.reported_symptoms = Len(h1)],
               ref |-> info ]
        ELSE [ heap |-> [h EXCEPT ![observed].items.reported_symptoms =
                                      h[observed].items.reported_symptoms],
               ref |-> info ]

PreTransforms == {"PatchTroubleBreathing", "DropInSymptomGroups"}

\* PreTransform.__call__: human_day_info = dict(human_day_info), then apply
PreTransform_call(h, transform, info, rnd) ==
    LET h1 == Append(h, DictObj(h[info].items))
    IN  IF transform = "PatchTroubleBreathing"
        THEN PatchTroubleBreathing_apply(h1, Len(h1))
        ELSE DropInSymptomGroups_apply(h1, Len(h1), rnd)

\* ComposePreTransforms.__call__: each transform is given what the one
\* before returned
RECURSIVE ComposePreTransforms_call(_, _, _, _)
ComposePreTransforms_call(h, transforms, info, rnd) ==
    IF transforms = <<>>
    THEN [heap |-> h, ref |-> info]
    ELSE LET r == PreTransform_call(h, Head(transforms), info, rnd)
         IN  ComposePreTransforms_call(r.heap, Tail(transforms), r.ref, rnd)

\* the chains of get_pre_transforms: the two transforms in either order
Chains == { <<"PatchTroubleBreathing", "DropInSymptomGroups">>,
            <<"DropInSymptomGroups", "PatchTroubleBreathing">> }

\* the rows a reported_symptoms array is made of
SymptomRows == { <<0, 0, 0, 0>>, <<1, 0, 0, 0>>, <<0, 1, 0, 1>> }

\* the caller reads a record: human_day_info with its nested "observed"
NewRecord(symptoms) ==
    /\ caller_info = 0
    /\ heap' = << DictObj([observed |-> 2, current_day |-> 3]),
                  DictObj([reported_symptoms |-> 4, test_results |-> 5]),
                  IntObj(SymptomDays),
                  ArrayObj(symptoms),
                  ArrayObj(Tup([t \in 1..SymptomDays |-> (t % 3) - 1])) >>
    /\ caller_info' = 1
    /\ UNCHANGED << returned_info, transform_calls >>
    /\ UNCHANGED << modelVars, loaderVars, lossVars, itemVars >>

\* out = transform(human_day_info) for one pre-transform
CallPreTransform(transform, rnd) ==
    /\ caller_info # 0
    /\ transform_calls < MaxTransformCalls
    /\ LET r == PreTransform_call(heap, transform, caller_info, rnd)
       IN  /\ heap' = r.heap
           /\ returned_info' = r.ref
    /\ transform_calls' = transform_calls + 1
    /\ UNCHANGED caller_info
    /\ UNCHANGED << modelVars, loaderVars, lossVars, itemVars >>

\* out = ComposePreTransforms(transforms)(human_day_info)
CallCompose(transforms, rnd) ==
    /\ caller_info # 0
    /\ transform_calls < MaxTransformCalls
    /\ LET r == ComposePreTransforms_call(heap, transforms, caller_info, rnd)
       IN  /\ heap' = r.heap
           /\ returned_info' = r.ref
    /\ transform_calls' = transform_calls + 1
    /\ UNCHANGED caller_info
    /\ UNCHANGED << modelVars, loaderVars, lossVars, itemVars >>

NextTransforms ==
    \/ \E symptoms \in { Tup(f) : f \in [1..SymptomDays -> SymptomRows] } :
           NewRecord(symptoms)
    \/ \E transform \in PreTransforms : \E rnd \in Randoms :
           CallPreTransform(transform, rnd)
    \/ \E transforms \in Chains : \E rnd \in Randoms :
           CallCompose(transforms, rnd)

SpecTransforms == Init /\ [][NextTransforms]_vars

(* C30: the caller's record is left alone.  A call of a pre-transform or   *)
(* of a chain of pre-transforms leaves the value of the caller's           *)
(* human_day_info as it was, the nested "observed" record and its          *)
(* reported_symptoms included, the transformed symptoms being reachable    *)
(* from the returned mapping only; so a second call on the same record     *)
(* starts from the original symptoms.                                      *)
C30_CallerRecordUnchanged ==
    [][ caller_info # 0 =>
            DeepValue(heap', caller_info') = DeepValue(heap, caller_info) ]_vars

=============================================================================
